---- MODULE Spec2Model ----
(***************************************************************************)
(* Model of the taxtor advance-tax calculator (FY 2025-26).                *)
(*                                                                         *)
(* Numbers.  The TypeScript code computes in IEEE doubles; the model       *)
(* computes in exact fixed point.  Two kinds of quantity are kept apart:   *)
(*   - incomes (salary, gains, deductions, slab limits) are whole rupees;  *)
(*   - tax amounts (tax, TDS, payments, interest) are counted in units of  *)
(*     1/Scale rupee.                                                      *)
(* A rate such as 0.05 is the fraction <<5, 100>>.  The inputs of the      *)
(* specifications are chosen so that every product below is exact.  The    *)
(* integers of the model checker have 32 bits: a behaviour counts its tax  *)
(* amounts in 1/10,000 rupee where the figures need four decimals, and in  *)
(* 1/100 rupee where the incomes reach the surcharge tiers; the unit is    *)
(* fixed at the start of a behaviour and never changes.                    *)
(*                                                                         *)
(* Dates.  An ISO date string 'YYYY-MM-DD' is the triple <<y, m, d>>, the  *)
(* empty string is <<>>; parseISO validates the triple and returns a day   *)
(* ordinal, or NaN for a string that is not a calendar date.               *)
(***************************************************************************)
EXTENDS Integers, Sequences, FiniteSets, TLC

VARIABLES personalInfo, salaryIncome, mfWithdrawals, usStockSales, otherIncome,
          deductions, advanceTaxPaid, calculationResults,
          currentStep, highestStepReached,
          slabIncome, slabRegime, slabTax,
          gainSummary, usGainSummary,
          exported,
          scale,
          memoryCache, inflight, storage, now, promises, fetching, calls

storeVars == <<personalInfo, salaryIncome, mfWithdrawals, usStockSales, otherIncome,
               deductions, advanceTaxPaid, calculationResults,
               currentStep, highestStepReached>>
slabVars == <<slabIncome, slabRegime, slabTax>>
\* the summaries returned by calculateMFGains and calculateUSStockGains
gainVars == <<gainSummary, usGainSummary>>
\* the value last returned by exportData, and the unit of the tax amounts
fileVars == <<exported, scale>>
\* forex-cache.ts: the module variables memoryCache and inflight, the localStorage
\* item, Date.now(), the promises made by getForexRates, the requests of
\* fetchAndParseForexCsv on the network, and the callers of getForexRates
forexVars == <<memoryCache, inflight, storage, now, promises, fetching, calls>>
vars == <<personalInfo, salaryIncome, mfWithdrawals, usStockSales, otherIncome,
          deductions, advanceTaxPaid, calculationResults,
          currentStep, highestStepReached, slabIncome, slabRegime, slabTax,
          gainSummary, usGainSummary, exported, scale,
          memoryCache, inflight, storage, now, promises, fetching, calls>>

\* JavaScript null, for the nullable record fields of TaxState
NULL == [null |-> TRUE]

\* Invalid Date (its getTime() is NaN)
NaN == -1

----------------------------------------------------------------------------
\* Fixed-point arithmetic

\* tax units per rupee
Scale == scale
FineScale == 100 * 100
CoarseScale == 100

\* r rupees as a tax amount
Rs(r) == r * Scale

Max(a, b) == IF a >= b THEN a ELSE b
Min(a, b) == IF a <= b THEN a ELSE b

\* x * n / d, without forming x * n
MulDiv(x, n, d) == (x \div d) * n + ((x % d) * n) \div d

\* tax amount x times the rate
Times(x, rate) == MulDiv(x, rate[1], rate[2])

\* income (rupees) times the rate, as a tax amount
TaxAt(income, rate) == MulDiv(income, Scale * rate[1], rate[2])

RECURSIVE Pow(_, _)
Pow(b, n) == IF n = 0 THEN 1 ELSE b * Pow(b, n - 1)

RECURSIVE Sum(_)
Sum(s) == IF Len(s) = 0 THEN 0 ELSE Head(s) + Sum(Tail(s))

----------------------------------------------------------------------------
\* date-fns

DaysInMonth(y, m) ==
  IF m = 2 THEN (IF (y % 4 = 0 /\ y % 100 # 0) \/ y % 400 = 0 THEN 29 ELSE 28)
  ELSE IF m \in {4, 6, 9, 11} THEN 30 ELSE 31

\* parseISO(s).getTime(), as a day ordinal that keeps the calendar order
parseISO(s) ==
  IF Len(s) = 3 /\ s[2] \in 1..12 /\ s[3] >= 1 /\ s[3] <= DaysInMonth(s[1], s[2])
  THEN (s[1] * 12 + (s[2] - 1)) * 31 + s[3]
  ELSE NaN

getYear(s) == s[1]

\* whole months from the earlier date to the later one, truncated towards zero
\* (dates on the last day of a month are not among the inputs)
differenceInMonths(later, earlier) ==
  LET diff == (later[1] - earlier[1]) * 12 + (later[2] - earlier[2])
  IN  IF diff > 0 /\ later[3] < earlier[3] THEN diff - 1
      ELSE IF diff < 0 /\ later[3] > earlier[3] THEN diff + 1
      ELSE diff

----------------------------------------------------------------------------
\* src/lib/calculator.ts

CESS_RATE == <<4, 100>>

DEBT_LTCG_THRESHOLD_MONTHS == 36
EQUITY_LTCG_THRESHOLD_MONTHS == 12
US_STOCK_LTCG_THRESHOLD_MONTHS == 24

EQUITY_LTCG_RATE == <<125, 1000>>
EQUITY_LTCG_EXEMPTION == 125000
EQUITY_STCG_RATE == <<20, 100>>
DEBT_LTCG_RATE == <<20, 100>>
US_STOCK_LTCG_RATE == <<20, 100>>
US_STOCK_STCG_RATE == <<15, 100>>

\* cost * 1.04^years; the cost is returned as it is when a date is empty
getIndexedCost(cost, purchaseDate, saleDate) ==
  IF purchaseDate = <<>> \/ saleDate = <<>> THEN cost
  ELSE LET years == Max(0, getYear(saleDate) - getYear(purchaseDate))
       IN  MulDiv(cost, Pow(26, years), Pow(25, years))

\* mfEntry with a loss set off against the gains of its bucket
mfEntryWithLosses(w) ==
  LET gain == w.amountWithdrawn - w.costBasis
      zero == [equityLtcg |-> 0, equityStcg |-> 0, debtLtcg |-> 0,
               debtStcgAsSlab |-> 0, totalTds |-> w.tds]
  IN  IF w.fundType = "equity"
      THEN IF w.holdingPeriodMonths > EQUITY_LTCG_THRESHOLD_MONTHS
           THEN [zero EXCEPT !.equityLtcg = gain]
           ELSE [zero EXCEPT !.equityStcg = gain]
      ELSE IF w.holdingPeriodMonths > DEBT_LTCG_THRESHOLD_MONTHS
           THEN LET indexedCost == getIndexedCost(w.costBasis, w.dateOfInvestment,
                                                  w.dateOfWithdrawal)
                IN  [zero EXCEPT !.debtLtcg = Max(0, w.amountWithdrawn - indexedCost)]
           ELSE [zero EXCEPT !.debtStcgAsSlab = gain]

\* mfEntry with an equity fund long-term from the threshold on
mfEntryLongAtThreshold(w) ==
  LET gain == w.amountWithdrawn - w.costBasis
      zero == [equityLtcg |-> 0, equityStcg |-> 0, debtLtcg |-> 0,
               debtStcgAsSlab |-> 0, totalTds |-> w.tds]
  IN  IF gain <= 0 THEN zero
      ELSE IF w.fundType = "equity"
      THEN IF w.holdingPeriodMonths >= EQUITY_LTCG_THRESHOLD_MONTHS
           THEN [zero EXCEPT !.equityLtcg = gain]
           ELSE [zero EXCEPT !.equityStcg = gain]
      ELSE IF w.holdingPeriodMonths > DEBT_LTCG_THRESHOLD_MONTHS
           THEN LET indexedCost == getIndexedCost(w.costBasis, w.dateOfInvestment,
                                                  w.dateOfWithdrawal)
                IN  [zero EXCEPT !.debtLtcg = Max(0, w.amountWithdrawn - indexedCost)]
           ELSE [zero EXCEPT !.debtStcgAsSlab = gain]

\* what one withdrawal adds to each bucket of the GainSummary
mfEntry(w) ==
  LET gain == w.amountWithdrawn - w.costBasis
      zero == [equityLtcg |-> 0, equityStcg |-> 0, debtLtcg |-> 0,
               debtStcgAsSlab |-> 0, totalTds |-> w.tds]
  IN  IF gain <= 0 THEN zero
      ELSE IF w.fundType = "equity"
      THEN IF w.holdingPeriodMonths > EQUITY_LTCG_THRESHOLD_MONTHS
           THEN [zero EXCEPT !.equityLtcg = gain]
           ELSE [zero EXCEPT !.equityStcg = gain]
      ELSE IF w.holdingPeriodMonths > DEBT_LTCG_THRESHOLD_MONTHS
           THEN LET indexedCost == getIndexedCost(w.costBasis, w.dateOfInvestment,
                                                  w.dateOfWithdrawal)
                IN  [zero EXCEPT !.debtLtcg = Max(0, w.amountWithdrawn - indexedCost)]
           ELSE [zero EXCEPT !.debtStcgAsSlab = gain]

calculateMFGains(withdrawals) ==
  LET e == [i \in 1..Len(withdrawals) |-> mfEntry(withdrawals[i])]
  IN  [equityLtcg     |-> Sum([i \in 1..Len(e) |-> e[i].equityLtcg]),
       equityStcg     |-> Sum([i \in 1..Len(e) |-> e[i].equityStcg]),
       debtLtcg       |-> Sum([i \in 1..Len(e) |-> e[i].debtLtcg]),
       debtStcgAsSlab |-> Sum([i \in 1..Len(e) |-> e[i].debtStcgAsSlab]),
       totalTds       |-> Sum([i \in 1..Len(e) |-> e[i].totalTds])]

\* what one sale adds to each bucket of the USGainSummary
usEntry(s) ==
  LET gain == s.saleProceedsINR - s.costBasisINR - s.brokerageCharges
      zero == [ltcg |-> 0, stcg |-> 0, totalTds |-> s.tds]
  IN  IF gain <= 0 THEN zero
      ELSE IF s.holdingPeriodMonths > US_STOCK_LTCG_THRESHOLD_MONTHS
      THEN LET indexedCost == getIndexedCost(s.costBasisINR, s.dateOfPurchase, s.dateOfSale)
           IN  [zero EXCEPT !.ltcg = Max(0, s.saleProceedsINR - indexedCost
                                             - s.brokerageCharges)]
      ELSE [zero EXCEPT !.stcg = gain]

calculateUSStockGains(sales) ==
  LET e == [i \in 1..Len(sales) |-> usEntry(sales[i])]
  IN  [ltcg     |-> Sum([i \in 1..Len(e) |-> e[i].ltcg]),
       stcg     |-> Sum([i \in 1..Len(e) |-> e[i].stcg]),
       totalTds |-> Sum([i \in 1..Len(e) |-> e[i].totalTds])]

\* getGainsClassification of the mutual-fund form
getGainsClassification(fundType, holdingMonths) ==
  LET threshold == IF fundType = "debt" THEN DEBT_LTCG_THRESHOLD_MONTHS
                   ELSE EQUITY_LTCG_THRESHOLD_MONTHS
  IN  [type |-> IF holdingMonths > threshold THEN "LTCG" ELSE "STCG",
       threshold |-> threshold]

\* getGainsClassification of the US stock form
getGainsClassificationUS(holdingMonths) ==
  IF holdingMonths > US_STOCK_LTCG_THRESHOLD_MONTHS THEN "LTCG" ELSE "STCG"

\* computeHoldingMonths of the mutual-fund form: an empty withdrawal date
\* stands for 2025-04-01
computeHoldingMonths(dateOfInvestment, dateOfWithdrawal) ==
  IF dateOfInvestment = <<>> THEN 0
  ELSE LET endDate == IF dateOfWithdrawal # <<>> THEN dateOfWithdrawal ELSE <<2025, 4, 1>>
       IN  Max(differenceInMonths(endDate, dateOfInvestment), 0)

\* computeHoldingMonths of the US stock form
computeHoldingMonthsUS(dateOfPurchase, dateOfSale) ==
  IF dateOfPurchase = <<>> \/ dateOfSale = <<>> THEN 0
  ELSE Max(differenceInMonths(dateOfSale, dateOfPurchase), 0)

\* the entry the mutual-fund form stores for one row on submit
mfFormEntry(w) ==
  [fundType |-> w.fundType, dateOfInvestment |-> w.dateOfInvestment,
   dateOfWithdrawal |-> w.dateOfWithdrawal, amountWithdrawn |-> w.amountWithdrawn,
   costBasis |-> w.costBasis,
   holdingPeriodMonths |-> computeHoldingMonths(w.dateOfInvestment, w.dateOfWithdrawal),
   tds |-> w.tds]

\* the entry the US stock form stores for one row on submit
usFormEntry(s) ==
  [dateOfPurchase |-> s.dateOfPurchase, dateOfSale |-> s.dateOfSale,
   saleProceedsINR |-> s.saleProceedsINR, costBasisINR |-> s.costBasisINR,
   brokerageCharges |-> s.brokerageCharges,
   holdingPeriodMonths |-> computeHoldingMonthsUS(s.dateOfPurchase, s.dateOfSale),
   tds |-> s.tds]

\* slabTaxOld with the top bracket starting from 100,000 instead of 112,500
slabTaxOldDrop(income) ==
  IF income <= 250000 THEN 0
  ELSE LET tax == IF income <= 500000 THEN TaxAt(income - 250000, <<5, 100>>)
                  ELSE IF income <= 1000000
                  THEN Rs(12500) + TaxAt(income - 500000, <<20, 100>>)
                  ELSE Rs(100000) + TaxAt(income - 1000000, <<30, 100>>)
       IN  IF income <= 500000 THEN 0 ELSE tax

\* the old-regime branch of calculateSlabTax
slabTaxOld(income) ==
  IF income <= 250000 THEN 0
  ELSE LET tax == IF income <= 500000 THEN TaxAt(income - 250000, <<5, 100>>)
                  ELSE IF income <= 1000000
                  THEN Rs(12500) + TaxAt(income - 500000, <<20, 100>>)
                  ELSE Rs(112500) + TaxAt(income - 1000000, <<30, 100>>)
       IN  IF income <= 500000 THEN 0 ELSE tax

\* slabTaxNew with the rebate for incomes below 700,000 only
slabTaxNewRebateBelow(income) ==
  IF income <= 300000 THEN 0
  ELSE LET tax == IF income <= 700000 THEN TaxAt(income - 300000, <<5, 100>>)
                  ELSE IF income <= 1000000
                  THEN Rs(20000) + TaxAt(income - 700000, <<10, 100>>)
                  ELSE IF income <= 1200000
                  THEN Rs(50000) + TaxAt(income - 1000000, <<15, 100>>)
                  ELSE IF income <= 1500000
                  THEN Rs(80000) + TaxAt(income - 1200000, <<20, 100>>)
                  ELSE Rs(140000) + TaxAt(income - 1500000, <<30, 100>>)
       IN  IF income < 700000 THEN 0 ELSE tax

\* the new-regime branch of calculateSlabTax
slabTaxNew(income) ==
  IF income <= 300000 THEN 0
  ELSE LET tax == IF income <= 700000 THEN TaxAt(income - 300000, <<5, 100>>)
                  ELSE IF income <= 1000000
                  THEN Rs(20000) + TaxAt(income - 700000, <<10, 100>>)
                  ELSE IF income <= 1200000
                  THEN Rs(50000) + TaxAt(income - 1000000, <<15, 100>>)
                  ELSE IF income <= 1500000
                  THEN Rs(80000) + TaxAt(income - 1200000, <<20, 100>>)
                  ELSE Rs(140000) + TaxAt(income - 1500000, <<30, 100>>)
       IN  IF income <= 700000 THEN 0 ELSE tax

calculateSlabTax(income, regime) ==
  IF regime = "old" THEN slabTaxOld(income) ELSE slabTaxNew(income)

\* calculateSurcharge with each tier starting at its limit
calculateSurchargeFromLimit(tax, income) ==
  IF income < 5000000 THEN 0
  ELSE IF income < 10000000 THEN Times(tax, <<10, 100>>)
  ELSE IF income < 20000000 THEN Times(tax, <<15, 100>>)
  ELSE Times(tax, <<25, 100>>)

calculateSurcharge(tax, income) ==
  IF income <= 5000000 THEN 0
  ELSE IF income <= 10000000 THEN Times(tax, <<10, 100>>)
  ELSE IF income <= 20000000 THEN Times(tax, <<15, 100>>)
  ELSE Times(tax, <<25, 100>>)

\* totalDeductions with the 80D ceiling of a taxpayer below 60 for every age
totalDeductionsOneCeiling(d, personalInfo_) ==
  Min(d.section80C, 150000)
  + Min(d.section80D, 25000)
  + Min(d.section80CCD1B, 50000)
  + d.section80G + d.section24b + d.otherChapterVIA

\* the deductions of the old regime
totalDeductions(d, personalInfo_) ==
  Min(d.section80C, 150000)
  + Min(d.section80D, IF personalInfo_.ageBracket = "below60" THEN 25000 ELSE 50000)
  + Min(d.section80CCD1B, 50000)
  + d.section80G + d.section24b + d.otherChapterVIA

\* specialRateTax with the long-term equity gains taxed from the first rupee
specialRateTaxNoExemption(mfSummary, usSummary) ==
  LET tax1 == TaxAt(mfSummary.equityStcg, EQUITY_STCG_RATE)
      tax2 == tax1 + TaxAt(mfSummary.equityLtcg, EQUITY_LTCG_RATE)
      tax3 == tax2 + TaxAt(mfSummary.debtLtcg, DEBT_LTCG_RATE)
      tax4 == tax3 + TaxAt(usSummary.stcg, US_STOCK_STCG_RATE)
  IN  tax4 + TaxAt(usSummary.ltcg, US_STOCK_LTCG_RATE)

\* what the gains taxed at special rates add to totalTax
specialRateTax(mfSummary, usSummary) ==
  LET tax1 == TaxAt(mfSummary.equityStcg, EQUITY_STCG_RATE)
      tax2 == IF mfSummary.equityLtcg > EQUITY_LTCG_EXEMPTION
              THEN tax1 + TaxAt(mfSummary.equityLtcg - EQUITY_LTCG_EXEMPTION, EQUITY_LTCG_RATE)
              ELSE tax1
      tax3 == tax2 + TaxAt(mfSummary.debtLtcg, DEBT_LTCG_RATE)
      tax4 == tax3 + TaxAt(usSummary.stcg, US_STOCK_STCG_RATE)
  IN  tax4 + TaxAt(usSummary.ltcg, US_STOCK_LTCG_RATE)

\* computeRegimeTax, the closure defined in generateWorksheet
computeRegimeTax(state, regime, mfSummary, usSummary, slabIncomeBase) ==
  LET taxableIncome ==
        IF regime = "old"
        THEN Max(0, slabIncomeBase - totalDeductions(state.deductions, state.personalInfo))
        ELSE slabIncomeBase
      tax5 == calculateSlabTax(taxableIncome, regime) + specialRateTax(mfSummary, usSummary)
      taxableIncomeWithSpecialRates ==
        taxableIncome + mfSummary.equityLtcg + mfSummary.equityStcg + mfSummary.debtLtcg
        + usSummary.ltcg + usSummary.stcg
      surcharge == calculateSurcharge(tax5, taxableIncomeWithSpecialRates)
      tax6 == tax5 + surcharge
  IN  [totalTax |-> tax6 + Times(tax6, CESS_RATE),
       taxableIncome |-> taxableIncomeWithSpecialRates]

\* the four rows of the advance-tax schedule before the payments are applied
QUARTERS == <<"June", "September", "December", "March">>
DUE_DATES == <<<<2025, 6, 15>>, <<2025, 9, 15>>, <<2025, 12, 15>>, <<2026, 3, 15>>>>
CUMULATIVE_PERCENTAGE == <<15, 45, 75, 100>>
FY_END == <<2026, 3, 31>>
ADVANCE_TAX_THRESHOLD == 10000


\* validPayments without the fallback of an empty payment date to the due date
validPaymentsDatedOnly(advanceTaxPaid_) ==
  LET mapped == [i \in 1..Len(advanceTaxPaid_) |->
                   [amount |-> advanceTaxPaid_[i].amountPaid,
                    paidOn |-> parseISO(advanceTaxPaid_[i].datePaid)]]
  IN  SelectSeq(mapped, LAMBDA p : p.amount > 0 /\ p.paidOn # NaN)

\* validPayments that keeps the records whose date does not parse or whose amount
\* is not positive
validPaymentsUnfiltered(advanceTaxPaid_) ==
  [i \in 1..Len(advanceTaxPaid_) |->
     [amount |-> advanceTaxPaid_[i].amountPaid,
      paidOn |-> parseISO(IF advanceTaxPaid_[i].datePaid # <<>>
                          THEN advanceTaxPaid_[i].datePaid
                          ELSE advanceTaxPaid_[i].dueDate)]]

\* advanceTaxPaid.map(...).filter(...)
validPayments(advanceTaxPaid_) ==
  LET mapped == [i \in 1..Len(advanceTaxPaid_) |->
                   [amount |-> advanceTaxPaid_[i].amountPaid,
                    paidOn |-> parseISO(IF advanceTaxPaid_[i].datePaid # <<>>
                                        THEN advanceTaxPaid_[i].datePaid
                                        ELSE advanceTaxPaid_[i].dueDate)]]
  IN  SelectSeq(mapped, LAMBDA p : p.amount > 0 /\ p.paidOn # NaN)


\* paidBy with the due date itself left out
paidByStrict(payments, date) ==
  Sum([i \in 1..Len(payments) |->
         IF payments[i].paidOn < parseISO(date) THEN payments[i].amount ELSE 0])

\* validPayments.reduce((acc, p) => p.paidOn <= date ? acc + p.amount : acc, 0)
paidBy(payments, date) ==
  Sum([i \in 1..Len(payments) |->
         IF payments[i].paidOn <= parseISO(date) THEN payments[i].amount ELSE 0])

salaryNet(salaryIncome_) ==
  IF salaryIncome_ # NULL
  THEN Max(0, salaryIncome_.grossSalary - salaryIncome_.professionalTax
              - salaryIncome_.standardDeduction)
  ELSE 0


\* recommendedRegime with the comparison turned round
recommendedHigher(oldTax, newTax) == IF oldTax >= newTax THEN "old" ELSE "new"

\* recommendedRegime with the new regime recommended on a tie
recommendedNewOnTie(oldTax, newTax) == IF oldTax < newTax THEN "old" ELSE "new"

recommendedRegime(oldTax, newTax) == IF oldTax <= newTax THEN "old" ELSE "new"

assessedTax(finalTax, totalTds) == Max(0, finalTax - totalTds)


\* exemptFromAdvanceTax for the 60-to-80 bracket only
exemptSeniorOnly(personalInfo_) ==
  LET isResidentSenior == personalInfo_.residentialStatus = "resident"
                          /\ personalInfo_.ageBracket = "60to80"
      hasBusinessOrProfessionalIncome ==
        IF "hasBusinessOrProfessionalIncome" \in DOMAIN personalInfo_
        THEN personalInfo_.hasBusinessOrProfessionalIncome
        ELSE TRUE
  IN  isResidentSenior /\ ~hasBusinessOrProfessionalIncome

\* exemptFromAdvanceTax with a missing flag read as no business income
exemptWhenFlagAbsent(personalInfo_) ==
  LET isResidentSenior == personalInfo_.residentialStatus = "resident"
                          /\ personalInfo_.ageBracket # "below60"
      hasBusinessOrProfessionalIncome ==
        IF "hasBusinessOrProfessionalIncome" \in DOMAIN personalInfo_
        THEN personalInfo_.hasBusinessOrProfessionalIncome
        ELSE FALSE
  IN  isResidentSenior /\ ~hasBusinessOrProfessionalIncome

exemptFromAdvanceTax(personalInfo_) ==
  LET isResidentSenior == personalInfo_.residentialStatus = "resident"
                          /\ personalInfo_.ageBracket # "below60"
      hasBusinessOrProfessionalIncome ==
        IF "hasBusinessOrProfessionalIncome" \in DOMAIN personalInfo_
        THEN personalInfo_.hasBusinessOrProfessionalIncome
        ELSE TRUE
  IN  isResidentSenior /\ ~hasBusinessOrProfessionalIncome


\* isAdvanceTaxApplicable with the threshold itself included
isApplicableFromThreshold(personalInfo_, assessed) ==
  ~exemptFromAdvanceTax(personalInfo_) /\ assessed >= Rs(ADVANCE_TAX_THRESHOLD)

isAdvanceTaxApplicable(personalInfo_, assessed) ==
  ~exemptFromAdvanceTax(personalInfo_) /\ assessed > Rs(ADVANCE_TAX_THRESHOLD)

advanceTaxBase(applicable, assessed) == IF applicable THEN assessed ELSE 0

requiredAmount(base, q) == Times(base, <<CUMULATIVE_PERCENTAGE[q], 100>>)

\* shortfall without the floor of 0
shortfallUnclamped(required, cumulativePaidByDueDate) == required - cumulativePaidByDueDate

shortfall(required, cumulativePaidByDueDate) == Max(0, required - cumulativePaidByDueDate)


\* months234C with three months for the March installment too
monthsAlwaysThree(quarter) == 3

\* months of interest on the shortfall of one installment
months234C(quarter) == IF quarter = "March" THEN 1 ELSE 3

interest234C(applicable, schedule) ==
  IF applicable
  THEN Sum([q \in 1..Len(schedule) |->
              IF schedule[q].shortfall > 0
              THEN Times(schedule[q].shortfall, <<months234C(schedule[q].quarter), 100>>)
              ELSE 0])
  ELSE 0


\* interest234B charged whether or not advance tax is applicable
interest234BAlways(applicable, paidThroughMarch31, assessed) ==
  IF paidThroughMarch31 < Times(assessed, <<90, 100>>)
  THEN Times(Times(assessed, <<90, 100>>) - paidThroughMarch31, <<4, 100>>)
  ELSE 0

\* interest234B on the shortfall from the whole assessed tax
interest234BFullBase(applicable, paidThroughMarch31, assessed) ==
  IF applicable /\ paidThroughMarch31 < Times(assessed, <<90, 100>>)
  THEN Times(assessed - paidThroughMarch31, <<4, 100>>)
  ELSE 0

\* interest234B on 90% of the assessed tax, whatever was paid
interest234BUnpaid(applicable, paidThroughMarch31, assessed) ==
  IF applicable /\ paidThroughMarch31 < Times(assessed, <<90, 100>>)
  THEN Times(Times(assessed, <<90, 100>>), <<4, 100>>)
  ELSE 0

interest234B(applicable, paidThroughMarch31, assessed) ==
  IF applicable /\ paidThroughMarch31 < Times(assessed, <<90, 100>>)
  THEN LET required90Percent == Times(assessed, <<90, 100>>)
           shortfall_ == required90Percent - paidThroughMarch31
       IN  Times(shortfall_, <<4, 100>>)
  ELSE 0

\* netAmountPayable without the interest
netAmountPayableWithoutInterest(assessed, i234B, i234C, totalAdvanceTaxPaid) ==
  Max(0, assessed - totalAdvanceTaxPaid)

netAmountPayable(assessed, i234B, i234C, totalAdvanceTaxPaid) ==
  Max(0, assessed + i234B + i234C - totalAdvanceTaxPaid)

generateWorksheet(state) ==
  LET mfSummary == calculateMFGains(state.mfWithdrawals)
      usSummary == calculateUSStockGains(state.usStockSales)
      totalOtherIncome == Sum([i \in 1..Len(state.otherIncome) |-> state.otherIncome[i].amount])
      otherIncomeTds == Sum([i \in 1..Len(state.otherIncome) |-> state.otherIncome[i].tds])
      slabIncomeBase == salaryNet(state.salaryIncome) + totalOtherIncome
                        + mfSummary.debtStcgAsSlab
      totalTds == (IF state.salaryIncome # NULL THEN state.salaryIncome.tds ELSE 0)
                  + mfSummary.totalTds + usSummary.totalTds + otherIncomeTds
      oldResult == computeRegimeTax(state, "old", mfSummary, usSummary, slabIncomeBase)
      newResult == computeRegimeTax(state, "new", mfSummary, usSummary, slabIncomeBase)
      recommended == recommendedRegime(oldResult.totalTax, newResult.totalTax)
      finalTax == IF recommended = "old" THEN oldResult.totalTax ELSE newResult.totalTax
      assessed == assessedTax(finalTax, totalTds)
      applicable == isAdvanceTaxApplicable(state.personalInfo, assessed)
      base == advanceTaxBase(applicable, assessed)
      payments == validPayments(state.advanceTaxPaid)
      paidThroughMarch31 == paidBy(payments, FY_END)
      totalAdvanceTaxPaid == Sum([i \in 1..Len(payments) |-> payments[i].amount])
      schedule == [q \in 1..4 |->
                     LET cumulativePaidByDueDate == paidBy(payments, DUE_DATES[q])
                     IN  [quarter |-> QUARTERS[q],
                          dueDate |-> DUE_DATES[q],
                          cumulativePercentage |-> CUMULATIVE_PERCENTAGE[q],
                          requiredAmount |-> requiredAmount(base, q),
                          actualPaid |-> cumulativePaidByDueDate,
                          shortfall |-> shortfall(requiredAmount(base, q),
                                                  cumulativePaidByDueDate)]]
      i234C == interest234C(applicable, schedule)
      i234B == interest234B(applicable, paidThroughMarch31, assessed)
  IN  [totalIncome |-> slabIncomeBase + mfSummary.equityLtcg + mfSummary.equityStcg
                       + mfSummary.debtLtcg + usSummary.ltcg + usSummary.stcg,
       taxableIncome |-> IF recommended = "old" THEN oldResult.taxableIncome
                         ELSE newResult.taxableIncome,
       taxOldRegime |-> oldResult.totalTax,
       taxNewRegime |-> newResult.totalTax,
       recommendedRegime |-> recommended,
       advanceTaxSchedule |-> schedule,
       interest234B |-> i234B,
       interest234C |-> i234C,
       totalTdsCredited |-> totalTds,
       netAmountPayable |-> netAmountPayable(assessed, i234B, i234C, totalAdvanceTaxPaid)]

\* TaxWorksheet: the amount shown as 'Less: Advance Tax Already Paid'
advanceTaxAlreadyPaid(results) ==
  Sum([q \in 1..Len(results.advanceTaxSchedule) |->
         results.advanceTaxSchedule[q].actualPaid])

\* the TaxState held by the store (exportData without calculationResults)
State ==
  [personalInfo |-> personalInfo, salaryIncome |-> salaryIncome,
   mfWithdrawals |-> mfWithdrawals, usStockSales |-> usStockSales,
   otherIncome |-> otherIncome, deductions |-> deductions,
   advanceTaxPaid |-> advanceTaxPaid]

----------------------------------------------------------------------------
\* Inputs of the worksheet specification

\* longest list of advance-tax payment records
MaxPayments == 2
\* longest list of mutual-fund withdrawals, of US stock sales and of other incomes
MaxEntries == 1

\* all sequences over S of length at most n
SeqUpTo(S, n) == UNION {[1..k -> S] : k \in 0..n}

initialPersonalInfo == [residentialStatus |-> "resident", ageBracket |-> "below60"]

initialDeductions ==
  [section80C |-> 0, section80D |-> 0, section80CCD1B |-> 0,
   section80G |-> 0, section24b |-> 0, otherChapterVIA |-> 0]

\* every profile: the flag for business or professional income absent, true or false
Profiles ==
  LET base == [residentialStatus : {"resident", "non-resident", "rnor"},
               ageBracket : {"below60", "60to80", "above80"}]
  IN  base \cup {[residentialStatus |-> b.residentialStatus, ageBracket |-> b.ageBracket,
                  hasBusinessOrProfessionalIncome |-> f] : b \in base, f \in BOOLEAN}

\* a below-60 resident, a resident senior with and without business income
FewProfiles ==
  {initialPersonalInfo,
   [residentialStatus |-> "resident", ageBracket |-> "60to80",
    hasBusinessOrProfessionalIncome |-> FALSE],
   [residentialStatus |-> "resident", ageBracket |-> "above80",
    hasBusinessOrProfessionalIncome |-> TRUE]}

\* a below-60 resident and an exempt resident senior
TwoProfiles ==
  {initialPersonalInfo,
   [residentialStatus |-> "resident", ageBracket |-> "60to80",
    hasBusinessOrProfessionalIncome |-> FALSE]}

\* net salary 1,000,000: new-regime tax 52,000, old-regime tax 117,000 before deductions
RoundSalary(tds) ==
  [grossSalary |-> 1050000, professionalTax |-> 0, standardDeduction |-> 50000, tds |-> tds]

\* TDS leaving 52,000, 50,000, 10,000.20, 10,000 and nothing of the 52,000
RoundSalaries ==
  {RoundSalary(t) : t \in {0, Rs(2000), Rs(42000) - 2000, Rs(42000), Rs(60000)}}

\* gross salary 1,200,000 and professional tax 2,400, without TDS
ScenarioSalaries ==
  {[grossSalary |-> 1200000, professionalTax |-> 2400, standardDeduction |-> sd, tds |-> 0] :
     sd \in {0, 50000}}

Salaries == {NULL} \cup RoundSalaries \cup ScenarioSalaries

\* assessed tax 50,000 and assessed tax 75,025.60
TwoSalaries ==
  {RoundSalary(Rs(2000)),
   [grossSalary |-> 1200000, professionalTax |-> 2400, standardDeduction |-> 50000, tds |-> 0]}

\* no deductions, or deductions that bring the old-regime income of the round salary to 600,000
DeductionSets ==
  {initialDeductions,
   [section80C |-> 200000, section80D |-> 60000, section80CCD1B |-> 50000,
    section80G |-> 0, section24b |-> 150000, otherChapterVIA |-> 0]}

\* interest income of 40,000 with 4,000 deducted at source
OtherIncomes == {[amount |-> 40000, tds |-> Rs(4000), category |-> "interest"]}

\* an equity-fund withdrawal held 6 months with a gain of 10,000
MfWithdrawals ==
  {[fundType |-> "equity", amountWithdrawn |-> 60000, costBasis |-> 50000,
    holdingPeriodMonths |-> 6, dateOfInvestment |-> <<2025, 1, 10>>,
    dateOfWithdrawal |-> <<2025, 7, 10>>, tds |-> Rs(1000)]}

\* a US stock sale held 12 months with a gain of 10,000 after brokerage
UsStockSales ==
  {[saleProceedsINR |-> 90000, costBasisINR |-> 79000, brokerageCharges |-> 1000,
    holdingPeriodMonths |-> 12, dateOfPurchase |-> <<2024, 6, 1>>,
    dateOfSale |-> <<2025, 6, 1>>, tds |-> 0]}

\* the quarter keys of the payment form with their due dates
PaymentQuarters == {<<"june", <<2025, 6, 15>>>>, <<"december", <<2025, 12, 15>>>>}

\* 15% + 30% and the remaining 55% of an assessed tax of 50,000
PaymentAmounts == {Rs(22500), Rs(27500)}

\* no date, the September due date, the end and the day after the end of the
\* financial year
PaymentDates == {<<>>, <<2025, 9, 15>>, <<2026, 3, 31>>, <<2026, 4, 1>>}

\* a record without an amount and a record whose date is not a calendar date
OddPayments ==
  {[quarter |-> "june", dueDate |-> <<2025, 6, 15>>, amountPaid |-> 0, datePaid |-> <<>>],
   [quarter |-> "june", dueDate |-> <<2025, 6, 15>>, amountPaid |-> Rs(22500),
    datePaid |-> <<2025, 2, 30>>]}

PaymentRecords ==
  {[quarter |-> q[1], dueDate |-> q[2], amountPaid |-> a, datePaid |-> d] :
     q \in PaymentQuarters, a \in PaymentAmounts, d \in PaymentDates}
  \cup OddPayments

\* the whole assessed tax of the round salary paid before the first due date, or late;
\* a record without an amount before half the tax paid without a date
SinglePayments ==
  {<<>>,
   <<[quarter |-> "june", dueDate |-> <<2025, 6, 15>>, amountPaid |-> Rs(52000),
      datePaid |-> <<2025, 6, 1>>]>>,
   <<[quarter |-> "march", dueDate |-> <<2026, 3, 15>>, amountPaid |-> Rs(52000),
      datePaid |-> <<2026, 3, 20>>]>>,
   <<[quarter |-> "june", dueDate |-> <<2025, 6, 15>>, amountPaid |-> 0,
      datePaid |-> <<2025, 6, 1>>],
     [quarter |-> "september", dueDate |-> <<2025, 9, 15>>, amountPaid |-> Rs(26000),
      datePaid |-> <<>>]>>}

----------------------------------------------------------------------------
\* The worksheet specification: the store holds any of the bounded inputs and
\* the submit of the last step computes and stores the worksheet.

\* every profile with every salary, nothing or everything paid
ManyProfiles ==
  /\ personalInfo \in Profiles
  /\ salaryIncome \in Salaries
  /\ mfWithdrawals = <<>>
  /\ usStockSales = <<>>
  /\ otherIncome = <<>>
  /\ deductions = initialDeductions
  /\ advanceTaxPaid \in SinglePayments

\* a few profiles with every income and deduction, nothing paid
ManyIncomes ==
  /\ personalInfo \in FewProfiles
  /\ salaryIncome \in Salaries
  /\ mfWithdrawals \in SeqUpTo(MfWithdrawals, MaxEntries)
  /\ usStockSales \in SeqUpTo(UsStockSales, MaxEntries)
  /\ otherIncome \in SeqUpTo(OtherIncomes, MaxEntries)
  /\ deductions \in DeductionSets
  /\ advanceTaxPaid = <<>>

\* two profiles and two salaries, with every list of payments
ManyPayments ==
  /\ personalInfo \in TwoProfiles
  /\ salaryIncome \in TwoSalaries
  /\ mfWithdrawals = <<>>
  /\ usStockSales = <<>>
  /\ otherIncome = <<>>
  /\ deductions = initialDeductions
  /\ advanceTaxPaid \in SeqUpTo(PaymentRecords, MaxPayments)

\* forex-cache.ts as loaded and never called: nothing cached, nothing in flight
ForexIdle ==
  /\ memoryCache = NULL
  /\ inflight = NULL
  /\ storage = NULL
  /\ now = 0
  /\ promises = <<>>
  /\ fetching = {}
  /\ calls = <<>>

\* no slab tax and no gain summary computed apart from the worksheet
Idle ==
  /\ slabIncome = 0
  /\ slabRegime = "old"
  /\ slabTax = <<>>
  /\ gainSummary = NULL
  /\ usGainSummary = NULL

WorksheetInit ==
  /\ scale = FineScale
  /\ ManyProfiles \/ ManyIncomes \/ ManyPayments
  /\ calculationResults = NULL
  /\ currentStep = 6
  /\ highestStepReached = 6
  /\ exported = NULL
  /\ ForexIdle
  /\ Idle

\* the submit of the Advance Tax Payments step, the last of the wizard:
\* const results = generateWorksheet(state); setCalculationResults(results)
Calculate ==
  /\ currentStep = 6
  /\ calculationResults = NULL
  /\ calculationResults' = generateWorksheet(State)
  /\ UNCHANGED <<personalInfo, salaryIncome, mfWithdrawals, usStockSales, otherIncome,
                 deductions, advanceTaxPaid, currentStep, highestStepReached>>
  /\ UNCHANGED <<slabVars, gainVars, fileVars, forexVars>>

WorksheetNext == Calculate

WorksheetSpec == WorksheetInit /\ [][WorksheetNext]_vars

----------------------------------------------------------------------------
\* The slab-tax specification: calculateSlabTax applied to incomes on, around and
\* between the bracket limits of each regime.

\* rupees on each side of a bracket limit
SlabRadius == 2
\* incomes in steps of 50,000 rupees
MaxSlabSteps == 25

BracketLimits(regime) ==
  IF regime = "old" THEN {250000, 500000, 1000000}
  ELSE {300000, 700000, 1000000, 1200000, 1500000}

SlabIncomes(regime) ==
  {l + d : l \in BracketLimits(regime), d \in (0 - SlabRadius)..SlabRadius}
  \cup {k * 50000 : k \in 0..MaxSlabSteps}

SlabInit ==
  /\ scale = FineScale
  /\ personalInfo = initialPersonalInfo
  /\ salaryIncome = NULL
  /\ mfWithdrawals = <<>>
  /\ usStockSales = <<>>
  /\ otherIncome = <<>>
  /\ deductions = initialDeductions
  /\ advanceTaxPaid = <<>>
  /\ calculationResults = NULL
  /\ currentStep = 0
  /\ highestStepReached = 0
  /\ slabRegime \in {"old", "new"}
  /\ slabIncome \in SlabIncomes(slabRegime)
  /\ slabTax = <<>>
  /\ gainSummary = NULL
  /\ usGainSummary = NULL
  /\ exported = NULL
  /\ ForexIdle

\* let totalTax = calculateSlabTax(taxableIncome, regime)
CalculateSlab ==
  /\ slabTax = <<>>
  /\ slabTax' = <<calculateSlabTax(slabIncome, slabRegime)>>
  /\ UNCHANGED <<slabIncome, slabRegime>>
  /\ UNCHANGED <<storeVars, gainVars, fileVars, forexVars>>

SlabNext == CalculateSlab

SlabSpec == SlabInit /\ [][SlabNext]_vars

----------------------------------------------------------------------------
\* The gains specification: calculateMFGains, calculateUSStockGains and the
\* worksheet applied to lists of withdrawals and sales of every class, held up to
\* and beyond the threshold of the class, with a gain, a loss or neither.

\* longest list of withdrawals and of sales
MaxGains == 2

\* small gain, large gain, loss; each with the tax deducted at source
GainKinds == {<<10000, 0>>, <<300000, Rs(1000)>>, <<0 - 5000, Rs(500)>>}

\* the day of investment that makes the holding period with a sale on 2025-06-15
HeldSince(months) == <<2025 - ((months + 6) \div 12), 6 - (months % 12), 10>>

MfGainEntry(fundType, months, gain, tds) ==
  [fundType |-> fundType, amountWithdrawn |-> 1562500 + gain, costBasis |-> 1562500,
   holdingPeriodMonths |-> months, dateOfInvestment |-> HeldSince(months),
   dateOfWithdrawal |-> <<2025, 6, 15>>, tds |-> tds]

\* with these: withdrawals that return the cost exactly
MfGainEntries ==
  {MfGainEntry(f, m, k[1], k[2]) : f \in {"equity", "debt"}, m \in {12, 13, 36, 37},
                                   k \in GainKinds}
  \cup {MfGainEntry("equity", 13, 0, Rs(500)), MfGainEntry("debt", 37, 0, 0)}

UsGainEntry(months, gain, tds) ==
  [saleProceedsINR |-> 62500 + 500 + gain, costBasisINR |-> 62500, brokerageCharges |-> 500,
   holdingPeriodMonths |-> months, dateOfPurchase |-> HeldSince(months),
   dateOfSale |-> <<2025, 6, 15>>, tds |-> tds]

UsGainEntries ==
  {UsGainEntry(m, k[1], k[2]) : m \in {24, 25}, k \in GainKinds}
  \cup {UsGainEntry(25, 0, Rs(500))}

\* rows of the mutual-fund form: bought late in 2021, early in 2022 or in 2023,
\* redeemed on 2025-06-15 or with the redemption date left empty
MfDatedEntries ==
  {mfFormEntry([fundType |-> f, dateOfInvestment |-> i, dateOfWithdrawal |-> d,
                amountWithdrawn |-> 1562500 + g, costBasis |-> 1562500, tds |-> 0]) :
     f \in {"debt"}, i \in {<<2021, 12, 10>>, <<2022, 2, 10>>, <<2023, 1, 10>>},
     d \in {<<>>, <<2025, 6, 15>>}, g \in {10000, 300000}}
  \cup {mfFormEntry([fundType |-> "equity", dateOfInvestment |-> <<2024, 3, 20>>,
                     dateOfWithdrawal |-> <<>>, amountWithdrawn |-> 1572500,
                     costBasis |-> 1562500, tds |-> 0])}

\* rows of the US stock form: bought late in 2022 or early in 2023, sold on 2025-06-15
UsDatedEntries ==
  {usFormEntry([dateOfPurchase |-> i, dateOfSale |-> <<2025, 6, 15>>,
                saleProceedsINR |-> 62500 + 500 + g, costBasisINR |-> 62500,
                brokerageCharges |-> 500, tds |-> 0]) :
     i \in {<<2022, 12, 10>>, <<2023, 2, 10>>}, g \in {1000, 10000}}

\* net salary 600,000: old-regime tax 32,500, no new-regime tax
ModestSalary ==
  [grossSalary |-> 650000, professionalTax |-> 0, standardDeduction |-> 50000, tds |-> 0]

\* deductions below, at and above their ceilings, and above the income
ManyDeductionSets ==
  DeductionSets
  \cup {[section80C |-> 100000, section80D |-> 20000, section80CCD1B |-> 30000,
         section80G |-> 10000, section24b |-> 0, otherChapterVIA |-> 5000],
        [section80C |-> 160000, section80D |-> 40000, section80CCD1B |-> 60000,
         section80G |-> 0, section24b |-> 0, otherChapterVIA |-> 0],
        [initialDeductions EXCEPT !.section80G = 2000000]}

\* withdrawals only
ManyWithdrawals ==
  /\ personalInfo = initialPersonalInfo
  /\ mfWithdrawals \in SeqUpTo(MfGainEntries, MaxGains)
  /\ usStockSales = <<>>
  /\ salaryIncome = NULL
  /\ otherIncome = <<>>
  /\ deductions = initialDeductions

\* sales only
ManySales ==
  /\ personalInfo = initialPersonalInfo
  /\ mfWithdrawals = <<>>
  /\ usStockSales \in SeqUpTo(UsGainEntries, MaxGains)
  /\ salaryIncome = NULL
  /\ otherIncome = <<>>
  /\ deductions = initialDeductions

\* a withdrawal and a sale next to a salary, other income and deductions
MixedIncomes ==
  /\ personalInfo = initialPersonalInfo
  /\ mfWithdrawals \in {<<w>> : w \in MfGainEntries}
  /\ usStockSales \in {<<x>> : x \in UsGainEntries}
  /\ salaryIncome \in {NULL, ModestSalary}
  /\ otherIncome \in SeqUpTo(OtherIncomes, 1)
  /\ deductions \in DeductionSets

\* every age with every set of deductions, with and without a short-term debt gain
ManyDeductions ==
  /\ personalInfo \in FewProfiles
  /\ mfWithdrawals \in {<<>>, <<MfGainEntry("debt", 12, 300000, 0)>>}
  /\ usStockSales = <<>>
  /\ salaryIncome \in {NULL, ModestSalary}
  /\ otherIncome \in SeqUpTo(OtherIncomes, 1)
  /\ deductions \in ManyDeductionSets

\* entries as the two forms store them, the holding period computed from the dates,
\* of a resident senior who owes no advance tax
DatedGains ==
  /\ personalInfo = [residentialStatus |-> "resident", ageBracket |-> "60to80",
                     hasBusinessOrProfessionalIncome |-> FALSE]
  /\ mfWithdrawals \in SeqUpTo(MfDatedEntries, 1)
  /\ usStockSales \in SeqUpTo(UsDatedEntries, 1)
  /\ salaryIncome = NULL
  /\ otherIncome = <<>>
  /\ deductions = initialDeductions

GainsInit ==
  /\ scale = FineScale
  /\ ManyWithdrawals \/ ManySales \/ MixedIncomes \/ ManyDeductions \/ DatedGains
  /\ advanceTaxPaid = <<>>
  /\ calculationResults = NULL
  /\ currentStep = 6
  /\ highestStepReached = 6
  /\ exported = NULL
  /\ ForexIdle
  /\ Idle

\* const mfSummary = calculateMFGains(mfWithdrawals);
\* const usSummary = calculateUSStockGains(usStockSales)
ClassifyGains ==
  /\ gainSummary = NULL
  /\ gainSummary' = calculateMFGains(mfWithdrawals)
  /\ usGainSummary' = calculateUSStockGains(usStockSales)
  /\ UNCHANGED <<storeVars, slabVars, fileVars, forexVars>>

GainsNext == ClassifyGains \/ Calculate

GainsSpec == GainsInit /\ [][GainsNext]_vars

----------------------------------------------------------------------------
\* The round-trip specification: the store holds any of the bounded inputs; the
\* worksheet is computed, the data are exported, cleared and imported again.

\* exportData without the advance-tax payments
exportDataWithoutPayments ==
  [personalInfo |-> personalInfo, salaryIncome |-> salaryIncome,
   mfWithdrawals |-> mfWithdrawals, usStockSales |-> usStockSales,
   otherIncome |-> otherIncome, deductions |-> deductions,
   advanceTaxPaid |-> <<>>, calculationResults |-> calculationResults]

\* the value returned by exportData
exportData ==
  [personalInfo |-> personalInfo, salaryIncome |-> salaryIncome,
   mfWithdrawals |-> mfWithdrawals, usStockSales |-> usStockSales,
   otherIncome |-> otherIncome, deductions |-> deductions,
   advanceTaxPaid |-> advanceTaxPaid, calculationResults |-> calculationResults]

\* a call of exportData, its value kept as the exported file
ExportData ==
  /\ exported' = exportData
  /\ UNCHANGED <<storeVars, slabVars, gainVars, scale, forexVars>>

\* importData(data), with the exported file
importData ==
  /\ exported # NULL
  /\ personalInfo' = exported.personalInfo
  /\ salaryIncome' = exported.salaryIncome
  /\ mfWithdrawals' = exported.mfWithdrawals
  /\ usStockSales' = exported.usStockSales
  /\ otherIncome' = exported.otherIncome
  /\ deductions' = exported.deductions
  /\ advanceTaxPaid' = exported.advanceTaxPaid
  /\ calculationResults' = exported.calculationResults
  /\ currentStep' = 0
  /\ highestStepReached' = 0
  /\ UNCHANGED <<slabVars, gainVars, fileVars, forexVars>>

clearAll ==
  /\ personalInfo' = initialPersonalInfo
  /\ salaryIncome' = NULL
  /\ mfWithdrawals' = <<>>
  /\ usStockSales' = <<>>
  /\ otherIncome' = <<>>
  /\ deductions' = initialDeductions
  /\ advanceTaxPaid' = <<>>
  /\ calculationResults' = NULL
  /\ currentStep' = 0
  /\ highestStepReached' = 0
  /\ UNCHANGED <<slabVars, gainVars, fileVars, forexVars>>

\* two profiles and two salaries with one payment record, or everything paid
FewPayments ==
  /\ personalInfo \in TwoProfiles
  /\ salaryIncome \in TwoSalaries
  /\ mfWithdrawals = <<>>
  /\ usStockSales = <<>>
  /\ otherIncome = <<>>
  /\ deductions = initialDeductions
  /\ advanceTaxPaid \in {<<p>> : p \in PaymentRecords} \cup SinglePayments

RoundTripInit ==
  /\ scale = FineScale
  /\ ManyIncomes \/ FewPayments
  /\ calculationResults = NULL
  /\ currentStep = 6
  /\ highestStepReached = 6
  /\ exported = NULL
  /\ ForexIdle
  /\ Idle

RoundTripNext == Calculate \/ ExportData \/ importData \/ clearAll

RoundTripSpec == RoundTripInit /\ [][RoundTripNext]_vars

----------------------------------------------------------------------------
\* The surcharge specification: the worksheet applied to incomes on both sides of
\* the surcharge tiers, with the tax amounts counted in 1/100 rupee.

\* net salary 4,900,000, 5,000,000 and 5,100,000
HighSalaries ==
  {[grossSalary |-> net + 50000, professionalTax |-> 0, standardDeduction |-> 50000,
    tds |-> 0] : net \in {4900000, 5000000, 5100000}}

\* short-term equity gains of 5,000,000 and of 15,000,000
HighWithdrawals ==
  {[fundType |-> "equity", amountWithdrawn |-> 1000000 + gain, costBasis |-> 1000000,
    holdingPeriodMonths |-> 6, dateOfInvestment |-> <<2024, 12, 10>>,
    dateOfWithdrawal |-> <<2025, 6, 15>>, tds |-> 0] : gain \in {5000000, 15000000}}

\* a short-term US stock gain of 5,000,000
HighSales ==
  {[saleProceedsINR |-> 6000000, costBasisINR |-> 1000000, brokerageCharges |-> 0,
    holdingPeriodMonths |-> 6, dateOfPurchase |-> <<2024, 12, 10>>,
    dateOfSale |-> <<2025, 6, 15>>, tds |-> 0]}

\* no deductions, or a donation of 100,000
HighDeductions == {initialDeductions, [initialDeductions EXCEPT !.section80G = 100000]}

\* a resident senior without business income: no installments and no interest,
\* so that every figure of the worksheet is a whole number of 1/100 rupee
SurchargeInit ==
  /\ scale = CoarseScale
  /\ personalInfo = [residentialStatus |-> "resident", ageBracket |-> "60to80",
                     hasBusinessOrProfessionalIncome |-> FALSE]
  /\ salaryIncome \in {NULL} \cup HighSalaries
  /\ mfWithdrawals \in SeqUpTo(HighWithdrawals, MaxEntries)
  /\ usStockSales \in SeqUpTo(HighSales, MaxEntries)
  /\ otherIncome = <<>>
  /\ deductions \in HighDeductions
  /\ advanceTaxPaid = <<>>
  /\ calculationResults = NULL
  /\ currentStep = 6
  /\ highestStepReached = 6
  /\ exported = NULL
  /\ ForexIdle
  /\ Idle

SurchargeSpec == SurchargeInit /\ [][GainsNext]_vars

----------------------------------------------------------------------------
\* The forex-cache specification: callers call getForexRates in any order while
\* the requests on the network succeed or fail, the clock advances and
\* localStorage holds nothing, rates of an earlier visit or an unparseable item.

\* number of calls of getForexRates
MaxCalls == 3
\* number of half days the clock advances
MaxHalfDays == 3

HalfDay == 12 * 60 * 60 * 1000
TTL_MS == 24 * 60 * 60 * 1000

\* the rates a request returns, and the rates stored by an earlier visit
FetchedRates == {[source |-> "network", version |-> v] : v \in 1..2}
StoredRates == [source |-> "stored", version |-> 0]
\* a localStorage item that JSON.parse rejects
Garbage == [garbage |-> TRUE]

\* loadFromStorage(): the stored rates if they parse and are within the TTL
loadFromStorage ==
  IF storage = NULL \/ storage = Garbage THEN NULL
  ELSE IF now - storage.timestamp > TTL_MS THEN NULL
  ELSE storage.rates

\* saveToStorage(rates): the item written
savedItem(rates) == [rates |-> rates, timestamp |-> now]

\* getForexRates without the check of inflight
getForexRatesPathNoJoin ==
  IF memoryCache # NULL THEN "cached" ELSE "fetch"

\* the branch getForexRates takes: the memory cache, the promise in flight, or
\* a new request
getForexRatesPath ==
  IF memoryCache # NULL THEN "cached"
  ELSE IF inflight # NULL THEN "join"
  ELSE "fetch"

\* the catch block without the last resort of the expired item
fallbackRatesWithinTtl ==
  loadFromStorage

\* the catch block: the rates of loadFromStorage, else those of the expired item,
\* else nothing (the error is thrown again)
fallbackRates ==
  IF loadFromStorage # NULL THEN loadFromStorage
  ELSE IF storage # NULL /\ storage # Garbage THEN storage.rates
  ELSE NULL

\* a caller that has not called yet, and a promise just made
notCalled == [pc |-> "idle", promise |-> 0, value |-> NULL]
pending == [state |-> "pending", value |-> NULL, fetch |-> "pending"]

\* caller c calls getForexRates(); the body runs up to its first await
getForexRates(c) ==
  /\ calls[c].pc = "idle"
  /\ CASE getForexRatesPath = "cached" ->
            /\ calls' = [calls EXCEPT ![c] = [pc |-> "fulfilled", promise |-> 0,
                                              value |-> memoryCache]]
            /\ UNCHANGED <<inflight, promises, fetching>>
       [] getForexRatesPath = "join" ->
            /\ calls' = [calls EXCEPT ![c] = [pc |-> "awaiting", promise |-> inflight.id,
                                              value |-> NULL]]
            /\ UNCHANGED <<inflight, promises, fetching>>
       [] getForexRatesPath = "fetch" ->
            LET p == Len(promises) + 1
            IN  /\ promises' = Append(promises, pending)
                /\ fetching' = fetching \cup {p}
                /\ inflight' = [id |-> p]
                /\ calls' = [calls EXCEPT ![c] = [pc |-> "awaiting", promise |-> p,
                                                  value |-> NULL]]
  /\ UNCHANGED <<memoryCache, storage, now>>
  /\ UNCHANGED <<storeVars, slabVars, gainVars, fileVars>>

\* the request of promise p returns rates: the try block, then finally;
\* localStorage.setItem may throw, and then the item stays as it was
FetchSucceeds(p, rates) ==
  /\ p \in fetching
  /\ fetching' = fetching \ {p}
  /\ memoryCache' = rates
  /\ storage' \in {savedItem(rates), storage}
  /\ promises' = [promises EXCEPT ![p] = [state |-> "fulfilled", value |-> rates,
                                          fetch |-> "ok"]]
  /\ inflight' = NULL
  /\ UNCHANGED <<now, calls>>
  /\ UNCHANGED <<storeVars, slabVars, gainVars, fileVars>>

\* the request of promise p fails: the catch block, then finally
FetchFails(p) ==
  /\ p \in fetching
  /\ fetching' = fetching \ {p}
  /\ IF fallbackRates # NULL
     THEN /\ memoryCache' = fallbackRates
          /\ promises' = [promises EXCEPT ![p] = [state |-> "fulfilled",
                                                  value |-> fallbackRates,
                                                  fetch |-> "failed"]]
     ELSE /\ UNCHANGED memoryCache
          /\ promises' = [promises EXCEPT ![p] = [state |-> "rejected", value |-> NULL,
                                                  fetch |-> "failed"]]
  /\ inflight' = NULL
  /\ UNCHANGED <<storage, now, calls>>
  /\ UNCHANGED <<storeVars, slabVars, gainVars, fileVars>>

\* the promise caller c awaits has settled, and the caller goes on
Settle(c) ==
  /\ calls[c].pc = "awaiting"
  /\ promises[calls[c].promise].state # "pending"
  /\ calls' = [calls EXCEPT ![c] = [pc |-> promises[calls[c].promise].state,
                                    promise |-> calls[c].promise,
                                    value |-> promises[calls[c].promise].value]]
  /\ UNCHANGED <<memoryCache, inflight, storage, now, promises, fetching>>
  /\ UNCHANGED <<storeVars, slabVars, gainVars, fileVars>>

\* half a day passes
Tick ==
  /\ now < MaxHalfDays * HalfDay
  /\ now' = now + HalfDay
  /\ UNCHANGED <<memoryCache, inflight, storage, promises, fetching, calls>>
  /\ UNCHANGED <<storeVars, slabVars, gainVars, fileVars>>

ForexInit ==
  /\ scale = FineScale
  /\ personalInfo = initialPersonalInfo
  /\ salaryIncome = NULL
  /\ mfWithdrawals = <<>>
  /\ usStockSales = <<>>
  /\ otherIncome = <<>>
  /\ deductions = initialDeductions
  /\ advanceTaxPaid = <<>>
  /\ calculationResults = NULL
  /\ currentStep = 0
  /\ highestStepReached = 0
  /\ exported = NULL
  /\ Idle
  /\ memoryCache = NULL
  /\ inflight = NULL
  /\ storage \in {NULL, Garbage, [rates |-> StoredRates, timestamp |-> 0]}
  /\ now = 0
  /\ promises = <<>>
  /\ fetching = {}
  /\ calls = [c \in 1..MaxCalls |-> notCalled]

ForexNext ==
  \/ \E c \in 1..MaxCalls : getForexRates(c)
  \/ \E p \in fetching, rates \in FetchedRates : FetchSucceeds(p, rates)
  \/ \E p \in fetching : FetchFails(p)
  \/ \E c \in 1..MaxCalls : Settle(c)
  \/ Tick

ForexSpec == ForexInit /\ [][ForexNext]_vars

----------------------------------------------------------------------------
\* Properties of the worksheet, stated on the stored input and the stored result

Computed == calculationResults # NULL

Rows == 1..4

\* a <= b for two calendar dates
DateLeq(a, b) ==
  \/ a[1] < b[1]
  \/ a[1] = b[1] /\ a[2] < b[2]
  \/ a[1] = b[1] /\ a[2] = b[2] /\ a[3] <= b[3]

IsCalendarDate(d) ==
  Len(d) = 3 /\ d[2] \in 1..12 /\ d[3] \in 1..DaysInMonth(d[1], d[2])

\* the date a payment record counts for: its payment date, its due date when it has none
PaymentDate(p) == IF p.datePaid = <<>> THEN p.dueDate ELSE p.datePaid

\* the amounts of the stored payment records dated on or before the date
PaidOnOrBefore(date) ==
  Sum([i \in 1..Len(advanceTaxPaid) |->
         IF /\ IsCalendarDate(PaymentDate(advanceTaxPaid[i]))
            /\ DateLeq(PaymentDate(advanceTaxPaid[i]), date)
         THEN advanceTaxPaid[i].amountPaid ELSE 0])

\* final tax of the recommended regime less the TDS credited
TaxDue(res) ==
  Max(0, (IF res.recommendedRegime = "old" THEN res.taxOldRegime ELSE res.taxNewRegime)
         - res.totalTdsCredited)

\* resident, 60 or older, and stated to have no business or professional income
Exempt(info) ==
  /\ info.residentialStatus = "resident"
  /\ info.ageBracket \in {"60to80", "above80"}
  /\ "hasBusinessOrProfessionalIncome" \in DOMAIN info
  /\ info.hasBusinessOrProfessionalIncome = FALSE

Applicable == ~Exempt(personalInfo) /\ TaxDue(calculationResults) > Rs(10000)

Required(q) == calculationResults.advanceTaxSchedule[q].requiredAmount

\* the stored input with one TDS figure raised by delta
RaisedTds(delta) ==
  (IF salaryIncome # NULL
   THEN {[State EXCEPT !.salaryIncome.tds = @ + delta]} ELSE {})
  \cup {[State EXCEPT !.mfWithdrawals[i].tds = @ + delta] : i \in 1..Len(mfWithdrawals)}
  \cup {[State EXCEPT !.usStockSales[i].tds = @ + delta] : i \in 1..Len(usStockSales)}
  \cup {[State EXCEPT !.otherIncome[i].tds = @ + delta] : i \in 1..Len(otherIncome)}

TdsRaises == {Rs(2000), Rs(40000)}

\* C1: the required amounts of the four rows are 15%, 45%, 75% and 100% of the tax
\* due (final tax of the recommended regime less TDS) when the taxpayer is not
\* exempt and the tax due exceeds 10,000, and are all 0 otherwise (at exactly
\* 10,000 too); raising a TDS figure never raises a required amount.
C1_RequiredAmounts ==
  Computed =>
    /\ \A q \in Rows :
         Required(q) = IF Applicable
                       THEN MulDiv(TaxDue(calculationResults), <<15, 45, 75, 100>>[q], 100)
                       ELSE 0
    /\ \A delta \in TdsRaises : \A raised \in RaisedTds(delta) :
         LET schedule == generateWorksheet(raised).advanceTaxSchedule
         IN  \A q \in Rows : schedule[q].requiredAmount <= Required(q)

\* a taxpayer who is not exempt, with TDS, whose tax due is just above 10,000
C1_Witness ==
  /\ Computed
  /\ ~Exempt(personalInfo)
  /\ calculationResults.totalTdsCredited > 0
  /\ TaxDue(calculationResults) = Rs(10000) + 2000
  /\ Required(1) = 15000300
  /\ Required(4) = TaxDue(calculationResults)

\* C2: the actual paid of each row is the sum of the payment records dated on or
\* before the due date of the row, whatever their quarter label.
C2_ActualPaidByDate ==
  Computed =>
    \A q \in Rows :
      calculationResults.advanceTaxSchedule[q].actualPaid = PaidOnOrBefore(DUE_DATES[q])

\* a payment labelled june and paid on the September due date counts from September on
C2_Witness ==
  /\ Computed
  /\ \E i \in 1..Len(advanceTaxPaid) :
       /\ advanceTaxPaid[i].quarter = "june"
       /\ advanceTaxPaid[i].datePaid = <<2025, 9, 15>>
       /\ advanceTaxPaid[i].amountPaid > 0
  /\ Len(advanceTaxPaid) = 1
  /\ calculationResults.advanceTaxSchedule[1].actualPaid = 0
  /\ \A q \in 2..4 :
       calculationResults.advanceTaxSchedule[q].actualPaid = advanceTaxPaid[1].amountPaid

\* C3: a resident of 60 or older without business or professional income has a
\* required amount and a shortfall of 0 in every row and no interest under 234B
\* and 234C, whatever the tax and the payments.
C3_ExemptSenior ==
  (Computed /\ Exempt(personalInfo)) =>
    /\ \A q \in Rows :
         /\ calculationResults.advanceTaxSchedule[q].requiredAmount = 0
         /\ calculationResults.advanceTaxSchedule[q].shortfall = 0
    /\ calculationResults.interest234B = 0
    /\ calculationResults.interest234C = 0

\* an exempt resident above 80 owing more than 10,000 who paid nothing
C3_Witness ==
  /\ Computed
  /\ Exempt(personalInfo)
  /\ personalInfo.ageBracket = "above80"
  /\ TaxDue(calculationResults) > Rs(10000)
  /\ advanceTaxPaid = <<>>
  /\ calculationResults.interest234B = 0

\* 90% of the assessed tax and what was paid through the end of the financial year
NinetyPercent == MulDiv(TaxDue(calculationResults), 90, 100)
PaidThroughYearEnd == PaidOnOrBefore(<<2026, 3, 31>>)

C6_ShortfallFromAssessedTax ==
  (Computed /\ Applicable /\ PaidThroughYearEnd < NinetyPercent) =>
    calculationResults.interest234B
      = 4 * MulDiv(TaxDue(calculationResults) - PaidThroughYearEnd, 1, 100)

\* the shortfall of a row, from the tax due and the payments dated by its due date
RowShortfall(q) ==
  Max(0, MulDiv(TaxDue(calculationResults), <<15, 45, 75, 100>>[q], 100)
         - PaidOnOrBefore(DUE_DATES[q]))

\* C7: when advance tax is applicable, interest under 234C is the sum over the rows
\* of shortfall x 1% x m, m = 3 for June, September and December and 1 for March,
\* each row on its own shortfall.
C7_Interest234C ==
  (Computed /\ Applicable) =>
    /\ \A q \in Rows : calculationResults.advanceTaxSchedule[q].shortfall = RowShortfall(q)
    /\ calculationResults.interest234C
         = MulDiv(RowShortfall(1), 3, 100) + MulDiv(RowShortfall(2), 3, 100)
           + MulDiv(RowShortfall(3), 3, 100) + MulDiv(RowShortfall(4), 1, 100)

\* June paid in time, the later rows short by different amounts
C7_Witness ==
  /\ Computed
  /\ Applicable
  /\ RowShortfall(1) = 0
  /\ RowShortfall(2) = 0
  /\ RowShortfall(3) > 0
  /\ RowShortfall(4) > RowShortfall(3)
  /\ calculationResults.interest234C > 0

\* every row paid in full by its due date
PaidInFullOnTime == \A q \in Rows : PaidOnOrBefore(DUE_DATES[q]) >= Required(q)

\* C8: when the payments dated by each due date reach the required amount of the
\* row, interest under 234C is exactly 0.
C8_PaidInFullOnTime ==
  (Computed /\ PaidInFullOnTime) => calculationResults.interest234C = 0

\* advance tax applicable, paid in two installments without a payment date
C8_Witness ==
  /\ Computed
  /\ Applicable
  /\ PaidInFullOnTime
  /\ Len(advanceTaxPaid) = 2
  /\ \A i \in 1..Len(advanceTaxPaid) :
       advanceTaxPaid[i].datePaid = <<>> /\ advanceTaxPaid[i].amountPaid > 0
  /\ PaidOnOrBefore(DUE_DATES[1]) < Required(4)
  /\ calculationResults.interest234C = 0

\* resident below 60, gross salary 1,200,000, professional tax 2,400, standard
\* deduction at most 50,000, nothing else and nothing paid
SalariedScenario ==
  /\ personalInfo.residentialStatus = "resident"
  /\ personalInfo.ageBracket = "below60"
  /\ salaryIncome # NULL
  /\ salaryIncome.grossSalary = 1200000
  /\ salaryIncome.professionalTax = 2400
  /\ salaryIncome.standardDeduction <= 50000
  /\ salaryIncome.tds = 0
  /\ mfWithdrawals = <<>>
  /\ usStockSales = <<>>
  /\ otherIncome = <<>>
  /\ deductions = initialDeductions
  /\ advanceTaxPaid = <<>>

\* C9: in the salaried scenario the new regime is recommended, interest under 234B
\* and 234C is positive, every row has a positive shortfall and the March row
\* requires 100% of the tax due.
C9_SalariedScenario ==
  (Computed /\ SalariedScenario) =>
    /\ calculationResults.recommendedRegime = "new"
    /\ calculationResults.interest234B > 0
    /\ \A q \in Rows : calculationResults.advanceTaxSchedule[q].shortfall > 0
    /\ calculationResults.interest234C > 0
    /\ calculationResults.advanceTaxSchedule[4].requiredAmount
         = calculationResults.taxNewRegime - calculationResults.totalTdsCredited

\* the scenario with the standard deduction of 50,000: tax 75,025.60
C9_Witness ==
  /\ Computed
  /\ SalariedScenario
  /\ salaryIncome.standardDeduction = 50000
  /\ calculationResults.taxNewRegime = 750256000
  /\ calculationResults.advanceTaxSchedule[4].requiredAmount = 750256000

\* a bracket of the reference table: lower limit, upper limit, rate in percent
NoLimit == 100 * 1000000
ReferenceTable(regime) ==
  IF regime = "old"
  THEN {<<250000, 500000, 5>>, <<500000, 1000000, 20>>, <<1000000, NoLimit, 30>>}
  ELSE {<<300000, 700000, 5>>, <<700000, 1000000, 10>>, <<1000000, 1200000, 15>>,
        <<1200000, 1500000, 20>>, <<1500000, NoLimit, 30>>}

RebateLimit(regime) == IF regime = "old" THEN 500000 ELSE 700000

\* the part of the income that falls in the bracket, taxed at the rate of the bracket
BracketTax(income, bracket) ==
  Max(0, Min(income, bracket[2]) - bracket[1]) * bracket[3] * (Scale \div 100)

RECURSIVE SumOver(_, _)
SumOver(income, brackets) ==
  IF brackets = {} THEN 0
  ELSE LET bracket == CHOOSE x \in brackets : TRUE
       IN  BracketTax(income, bracket) + SumOver(income, brackets \ {bracket})

ReferenceTax(income, regime) ==
  IF income <= RebateLimit(regime) THEN 0 ELSE SumOver(income, ReferenceTable(regime))

\* C10: calculateSlabTax returns the tax of the progressive table of the regime, 0
\* up to the rebate limit (500,000 old, 700,000 new) and positive one rupee above it.
C10_SlabTable ==
  slabTax # <<>> =>
    /\ slabTax[1] = ReferenceTax(slabIncome, slabRegime)
    /\ slabIncome = RebateLimit(slabRegime) => slabTax[1] = 0
    /\ slabIncome = RebateLimit(slabRegime) + 1 => slabTax[1] > 0

\* new regime, exactly at the rebate limit of 700,000
C10_Witness ==
  /\ slabRegime = "new"
  /\ slabIncome = 700000
  /\ slabTax = <<0>>

----------------------------------------------------------------------------
\* Properties of the gain summaries, stated on the stored lists and summaries

Classified == gainSummary # NULL

\* months up to which a holding is short-term
ClassThreshold(class) == IF class = "equity" THEN 12 ELSE IF class = "debt" THEN 36 ELSE 24

\* gain of a withdrawal and of a sale before indexation
RawGain(w) == w.amountWithdrawn - w.costBasis
UsRawGain(x) == x.saleProceedsINR - x.costBasisINR - x.brokerageCharges

\* the positive gains of the withdrawals of a fund type, short-term or long-term
FundGains(list, fundType, long) ==
  Sum([i \in 1..Len(list) |->
         IF /\ list[i].fundType = fundType
            /\ RawGain(list[i]) > 0
            /\ (list[i].holdingPeriodMonths > ClassThreshold(fundType)) = long
         THEN RawGain(list[i]) ELSE 0])

\* the positive gains of the sales, short-term or long-term
StockGains(list, long) ==
  Sum([i \in 1..Len(list) |->
         IF /\ UsRawGain(list[i]) > 0
            /\ (list[i].holdingPeriodMonths > ClassThreshold("us")) = long
         THEN UsRawGain(list[i]) ELSE 0])

\* C11: a holding of exactly 12 months (equity fund), 36 months (debt fund) or 24
\* months (US stock) is short-term and only a longer one is long-term, in the
\* summaries of calculateMFGains and calculateUSStockGains and in the
\* classification shown by the two forms.
C11_ThresholdIsShortTerm ==
  Classified =>
    /\ gainSummary.equityStcg = FundGains(mfWithdrawals, "equity", FALSE)
    /\ gainSummary.equityLtcg = FundGains(mfWithdrawals, "equity", TRUE)
    /\ gainSummary.debtStcgAsSlab = FundGains(mfWithdrawals, "debt", FALSE)
    /\ gainSummary.debtLtcg <= FundGains(mfWithdrawals, "debt", TRUE)
    /\ usGainSummary.stcg = StockGains(usStockSales, FALSE)
    /\ usGainSummary.ltcg <= StockGains(usStockSales, TRUE)
    /\ \A i \in 1..Len(mfWithdrawals) :
         LET w == mfWithdrawals[i]
         IN  getGainsClassification(w.fundType, w.holdingPeriodMonths).type
               = IF w.holdingPeriodMonths <= ClassThreshold(w.fundType)
                 THEN "STCG" ELSE "LTCG"
    /\ \A i \in 1..Len(usStockSales) :
         getGainsClassificationUS(usStockSales[i].holdingPeriodMonths)
           = IF usStockSales[i].holdingPeriodMonths <= 24 THEN "STCG" ELSE "LTCG"

\* an equity fund held exactly 12 months and a US stock held exactly 24 months, both
\* with a gain that is counted short-term
C11_Witness ==
  /\ Classified
  /\ Len(mfWithdrawals) = 1 /\ Len(usStockSales) = 1
  /\ mfWithdrawals[1].fundType = "equity"
  /\ mfWithdrawals[1].holdingPeriodMonths = 12
  /\ usStockSales[1].holdingPeriodMonths = 24
  /\ gainSummary.equityStcg = 300000 /\ gainSummary.equityLtcg = 0
  /\ usGainSummary.stcg = 10000 /\ usGainSummary.ltcg = 0

\* the summaries without their TDS totals
MfBuckets(summary) ==
  <<summary.equityLtcg, summary.equityStcg, summary.debtLtcg, summary.debtStcgAsSlab>>
UsBuckets(summary) == <<summary.ltcg, summary.stcg>>

\* the TDS of every entry of a list
TdsOf(list) == Sum([i \in 1..Len(list) |-> list[i].tds])

\* C12: a withdrawal or a sale with a gain of 0 or less adds 0 to every bucket and
\* reduces no other gain (the buckets are those of the list without it), while
\* its TDS is counted in totalTds and in totalTdsCredited.
C12_LossesAddNothing ==
  /\ Classified =>
        /\ MfBuckets(gainSummary)
             = MfBuckets(calculateMFGains(SelectSeq(mfWithdrawals, LAMBDA w : RawGain(w) > 0)))
        /\ UsBuckets(usGainSummary)
             = UsBuckets(calculateUSStockGains(SelectSeq(usStockSales,
                                                         LAMBDA x : UsRawGain(x) > 0)))
        /\ \A b \in 1..4 : MfBuckets(gainSummary)[b] >= 0
        /\ \A b \in 1..2 : UsBuckets(usGainSummary)[b] >= 0
        /\ gainSummary.totalTds = TdsOf(mfWithdrawals)
        /\ usGainSummary.totalTds = TdsOf(usStockSales)
  /\ Computed =>
        calculationResults.totalTdsCredited
          = (IF salaryIncome = NULL THEN 0 ELSE salaryIncome.tds)
            + TdsOf(mfWithdrawals) + TdsOf(usStockSales) + TdsOf(otherIncome)

\* a withdrawal at a loss with TDS, before a withdrawal with a short-term equity gain
C12_Witness ==
  /\ Classified /\ Computed
  /\ Len(mfWithdrawals) = 2
  /\ RawGain(mfWithdrawals[1]) < 0 /\ mfWithdrawals[1].tds > 0
  /\ mfWithdrawals[1].fundType = "equity" /\ mfWithdrawals[1].holdingPeriodMonths = 12
  /\ mfWithdrawals[2].fundType = "equity" /\ mfWithdrawals[2].holdingPeriodMonths = 12
  /\ RawGain(mfWithdrawals[2]) = 10000
  /\ gainSummary.equityStcg = 10000
  /\ gainSummary.totalTds = mfWithdrawals[1].tds
  /\ calculationResults.totalTdsCredited = mfWithdrawals[1].tds

----------------------------------------------------------------------------
\* Properties of the tax of a regime

\* a percentage n/d of an income, as a tax amount
Pct(income, n, d) == MulDiv(income, Scale * n, d)

\* a tax amount with the cess of 4% on it
WithCess(tax) == tax + MulDiv(tax, 4, 100)

\* salary less professional tax and standard deduction, with the other incomes
OrdinaryIncome ==
  (IF salaryIncome = NULL THEN 0
   ELSE Max(0, salaryIncome.grossSalary - salaryIncome.professionalTax
               - salaryIncome.standardDeduction))
  + Sum([i \in 1..Len(otherIncome) |-> otherIncome[i].amount])

\* D: 80C up to 150,000, 80D up to 25,000 below 60 and 50,000 from 60 on, 80CCD(1B)
\* up to 50,000, the rest in full
DeductionTotal(d, info) ==
  Min(d.section80C, 150000)
  + Min(d.section80D, IF info.ageBracket = "below60" THEN 25000 ELSE 50000)
  + Min(d.section80CCD1B, 50000)
  + d.section80G + d.section24b + d.otherChapterVIA

\* the income taxed at slab rates under a regime
SlabIncome(regime) ==
  LET income == OrdinaryIncome + FundGains(mfWithdrawals, "debt", FALSE)
  IN  IF regime = "old" THEN Max(0, income - DeductionTotal(deductions, personalInfo))
      ELSE income

\* the tax on the gains taxed at special rates, each gain under its own term
SpecialRateTerms ==
  Pct(FundGains(mfWithdrawals, "equity", FALSE), 20, 100)
  + Pct(Max(0, FundGains(mfWithdrawals, "equity", TRUE) - 125000), 125, 1000)
  + Pct(gainSummary.debtLtcg, 20, 100)
  + Pct(StockGains(usStockSales, FALSE), 15, 100)
  + Pct(usGainSummary.ltcg, 20, 100)

\* the tax of a regime before surcharge and cess
TaxBeforeSurcharge(regime) == ReferenceTax(SlabIncome(regime), regime) + SpecialRateTerms

\* C13: the tax of each regime before surcharge and cess is the slab tax on net
\* salary + other income + short-term debt gains (less the deductions under the
\* old regime) + 20% of equity STCG + 12.5% of equity LTCG above 125,000 + 20% of
\* indexed debt LTCG + 15% of US STCG + 20% of indexed US LTCG; with no surcharge
\* due the regime tax is that sum with the cess on it.
C13_TaxBeforeSurcharge ==
  (Computed /\ Classified) =>
    /\ calculationResults.taxOldRegime = WithCess(TaxBeforeSurcharge("old"))
    /\ calculationResults.taxNewRegime = WithCess(TaxBeforeSurcharge("new"))

\* a salary, long-term equity gains above the exemption and long-term indexed US gains
C13_Witness ==
  /\ Computed /\ Classified
  /\ salaryIncome # NULL
  /\ gainSummary.equityLtcg = 300000
  /\ usGainSummary.ltcg = 294900
  /\ deductions = initialDeductions /\ otherIncome = <<>>
  /\ calculationResults.taxNewRegime = WithCess(Rs(21875) + Rs(58980))
  /\ calculationResults.taxOldRegime = WithCess(Rs(32500) + Rs(21875) + Rs(58980))

\* total income of a regime: the income taxed at slab rates and every gain taxed
\* at a special rate
TotalIncome(regime) ==
  SlabIncome(regime)
  + FundGains(mfWithdrawals, "equity", FALSE) + FundGains(mfWithdrawals, "equity", TRUE)
  + gainSummary.debtLtcg + StockGains(usStockSales, FALSE) + usGainSummary.ltcg

\* s, in percent
SurchargePercent(income) ==
  IF income <= 5000000 THEN 0
  ELSE IF income <= 10000000 THEN 10
  ELSE IF income <= 20000000 THEN 15 ELSE 25

\* (T + s x T) x 1.04
FinalRegimeTax(regime) ==
  LET T == TaxBeforeSurcharge(regime)
  IN  WithCess(T + MulDiv(T, SurchargePercent(TotalIncome(regime)), 100))

\* C14: the final tax of each regime is (T + s x T) x 1.04, T the tax before
\* surcharge and s = 0, 10%, 15% or 25% for a total income up to 5,000,000, up to
\* 10,000,000, up to 20,000,000 or above, the total income being the income taxed
\* at slab rates plus every special-rate gain; the cess is on tax plus surcharge.
C14_SurchargeAndCess ==
  (Computed /\ Classified) =>
    /\ calculationResults.taxOldRegime = FinalRegimeTax("old")
    /\ calculationResults.taxNewRegime = FinalRegimeTax("new")

\* a donation of 100,000 brings the old-regime income to exactly 10,000,000 (10%)
\* while the new-regime income of 10,100,000 is charged 15%
C14_Witness ==
  /\ Computed /\ Classified
  /\ TotalIncome("old") = 10000000
  /\ TotalIncome("new") = 10100000
  /\ calculationResults.taxOldRegime
       = WithCess(TaxBeforeSurcharge("old") + MulDiv(TaxBeforeSurcharge("old"), 10, 100))
  /\ calculationResults.taxNewRegime
       = WithCess(TaxBeforeSurcharge("new") + MulDiv(TaxBeforeSurcharge("new"), 15, 100))
  /\ calculationResults.taxNewRegime > calculationResults.taxOldRegime

\* the stored input with other deductions
WithDeductions(d) == [State EXCEPT !.deductions = d]

\* C15: under the old regime the income taxed at slab rates is max(0, slab income
\* - D), D = min(80C, 150,000) + min(80D, 25,000 below 60 and 50,000 from 60 on)
\* + min(80CCD1B, 50,000) + 80G + 24b + other; under the new regime nothing is
\* deducted and the tax is the same whatever the deductions.
C15_Deductions ==
  (Computed /\ Classified) =>
    LET income == OrdinaryIncome + gainSummary.debtStcgAsSlab
        D == Min(deductions.section80C, 150000)
             + Min(deductions.section80D,
                   IF personalInfo.ageBracket = "below60" THEN 25000 ELSE 50000)
             + Min(deductions.section80CCD1B, 50000)
             + deductions.section80G + deductions.section24b + deductions.otherChapterVIA
    IN  /\ calculationResults.taxOldRegime
             = WithCess(ReferenceTax(Max(0, income - D), "old") + SpecialRateTerms)
        /\ calculationResults.taxNewRegime
             = WithCess(ReferenceTax(income, "new") + SpecialRateTerms)
        /\ \A d \in ManyDeductionSets :
             generateWorksheet(WithDeductions(d)).taxNewRegime
               = calculationResults.taxNewRegime

\* a taxpayer above 80 with 80C and 80CCD(1B) above their ceilings and 80D of 40,000
\* counted in full: 940,000 less 240,000 is taxed 52,500 under the old regime
C15_Witness ==
  /\ Computed /\ Classified
  /\ personalInfo.ageBracket = "above80"
  /\ deductions.section80C = 160000
  /\ deductions.section80D = 40000
  /\ deductions.section80CCD1B = 60000
  /\ OrdinaryIncome + gainSummary.debtStcgAsSlab = 940000
  /\ calculationResults.taxOldRegime = WithCess(Rs(52500))
  /\ calculationResults.taxNewRegime = WithCess(Rs(44000))

----------------------------------------------------------------------------
\* Properties of the export and the import

----------------------------------------------------------------------------
\* Properties of the amount payable, the recommendation and the shortfalls

\* the amounts of all payment records with an amount and a calendar date
TotalPaid ==
  Sum([i \in 1..Len(advanceTaxPaid) |->
         IF /\ advanceTaxPaid[i].amountPaid > 0
            /\ IsCalendarDate(PaymentDate(advanceTaxPaid[i]))
         THEN advanceTaxPaid[i].amountPaid ELSE 0])

\* the total tax of the recommended regime
RecommendedTax ==
  IF calculationResults.recommendedRegime = "old" THEN calculationResults.taxOldRegime
  ELSE calculationResults.taxNewRegime

\* C17: netAmountPayable is max(0, tax of the recommended regime - TDS credited -
\* advance tax paid + interest under 234B + interest under 234C), the advance tax
\* paid being the total of all valid payments; it is never negative.
C17_NetAmountPayable ==
  Computed =>
    /\ calculationResults.netAmountPayable
         = Max(0, RecommendedTax - calculationResults.totalTdsCredited - TotalPaid
                  + calculationResults.interest234B + calculationResults.interest234C)
    /\ calculationResults.netAmountPayable >= 0

\* TDS, a payment in time and a payment after the end of the year, both interests
C17_Witness ==
  /\ Computed
  /\ calculationResults.totalTdsCredited > 0
  /\ TotalPaid > PaidThroughYearEnd
  /\ PaidThroughYearEnd > 0
  /\ calculationResults.interest234B > 0
  /\ calculationResults.interest234C > 0
  /\ calculationResults.netAmountPayable > 0
  /\ calculationResults.netAmountPayable < TaxDue(calculationResults)

\* the lower of the two regime taxes, less the TDS credited
LowerTaxDue ==
  Max(0, Min(calculationResults.taxOldRegime, calculationResults.taxNewRegime)
         - calculationResults.totalTdsCredited)

\* C18: the old regime is recommended exactly when its tax is at most the tax of
\* the new regime (on a tie too), the new regime otherwise; the schedule, both
\* interests and the net amount payable come from the lower of the two taxes.
C18_RecommendedRegime ==
  Computed =>
    LET due == LowerTaxDue
        applicable == ~Exempt(personalInfo) /\ due > Rs(10000)
        short(q) == Max(0, (IF applicable THEN MulDiv(due, <<15, 45, 75, 100>>[q], 100) ELSE 0)
                           - PaidOnOrBefore(DUE_DATES[q]))
        i234C == IF applicable
                 THEN MulDiv(short(1), 3, 100) + MulDiv(short(2), 3, 100)
                      + MulDiv(short(3), 3, 100) + MulDiv(short(4), 1, 100)
                 ELSE 0
        i234B == IF applicable /\ PaidThroughYearEnd < MulDiv(due, 90, 100)
                 THEN MulDiv(MulDiv(due, 90, 100) - PaidThroughYearEnd, 4, 100)
                 ELSE 0
    IN  /\ calculationResults.recommendedRegime
             = IF calculationResults.taxOldRegime <= calculationResults.taxNewRegime
               THEN "old" ELSE "new"
        /\ \A q \in Rows :
             /\ Required(q) = IF applicable THEN MulDiv(due, <<15, 45, 75, 100>>[q], 100)
                               ELSE 0
             /\ calculationResults.advanceTaxSchedule[q].shortfall = short(q)
        /\ calculationResults.interest234C = i234C
        /\ calculationResults.interest234B = i234B
        /\ calculationResults.netAmountPayable = Max(0, due + i234B + i234C - TotalPaid)

\* both regimes give the same positive tax and the old regime is recommended
C18_Witness ==
  /\ Computed
  /\ calculationResults.taxOldRegime = calculationResults.taxNewRegime
  /\ calculationResults.taxOldRegime > 0
  /\ calculationResults.recommendedRegime = "old"

\* one more payment record
MorePaid == {[quarter |-> "june", dueDate |-> <<2025, 6, 15>>, amountPaid |-> Rs(22500),
              datePaid |-> <<>>],
             [quarter |-> "march", dueDate |-> <<2026, 3, 15>>, amountPaid |-> Rs(27500),
              datePaid |-> <<2025, 12, 15>>]}

\* C19: in every row the shortfall is max(0, required - actual paid) and never
\* negative; the actual paid never falls from June to March; with one more payment
\* the required amounts stay, no actual paid falls and no shortfall rises.
C19_Shortfall ==
  Computed =>
    LET rows == calculationResults.advanceTaxSchedule
    IN  /\ \A q \in Rows :
             /\ rows[q].shortfall = Max(0, rows[q].requiredAmount - rows[q].actualPaid)
             /\ rows[q].shortfall >= 0
        /\ \A q \in 1..3 : rows[q].actualPaid <= rows[q + 1].actualPaid
        /\ \A p \in MorePaid :
             LET more == generateWorksheet([State EXCEPT !.advanceTaxPaid = Append(@, p)])
                           .advanceTaxSchedule
             IN  \A q \in Rows :
                   /\ more[q].requiredAmount = rows[q].requiredAmount
                   /\ more[q].actualPaid >= rows[q].actualPaid
                   /\ more[q].shortfall <= rows[q].shortfall

\* the first row overpaid, the last row short
C19_Witness ==
  /\ Computed
  /\ Applicable
  /\ calculationResults.advanceTaxSchedule[1].actualPaid > Required(1)
  /\ calculationResults.advanceTaxSchedule[1].shortfall = 0
  /\ calculationResults.advanceTaxSchedule[1].actualPaid
       < calculationResults.advanceTaxSchedule[3].actualPaid
  /\ calculationResults.advanceTaxSchedule[4].shortfall > 0

\* C20: within a regime the slab tax never falls as the income rises, across the
\* bracket limits and the rebate limit too.
C20_SlabTaxMonotone ==
  slabTax # <<>> =>
    \A a \in SlabIncomes(slabRegime) :
      /\ a <= slabIncome => calculateSlabTax(a, slabRegime) <= slabTax[1]
      /\ a >= slabIncome => calculateSlabTax(a, slabRegime) >= slabTax[1]

\* old regime, one rupee above the limit of the top bracket
C20_Witness ==
  /\ slabRegime = "old"
  /\ slabIncome = 1000001
  /\ slabTax = <<Rs(112500) + 3000>>

----------------------------------------------------------------------------
\* The wizard specification: from the initial store the steps are submitted or
\* skipped, the user goes back and jumps from the progress bar, and the data are
\* exported, cleared and imported.

\* the step numbers tried with goToStep lie this far outside 0..7
StepMargin == 1

STEP_LABELS ==
  <<"Personal Information", "Salary Income", "MF Withdrawals", "US Stock Income",
    "Other Income", "Deductions", "Advance Tax Payments">>

\* the components of WizardShell, STEPS[0] first
STEPS ==
  <<"PersonalInfo", "SalaryIncome", "MfWithdrawals", "UsStockIncome", "OtherIncome",
    "Deductions", "AdvanceTaxPayments", "TaxWorksheet">>

\* QUARTERS of the Advance Tax Payments step
FORM_QUARTERS ==
  <<[key |-> "june", dueDate |-> <<2025, 6, 15>>],
    [key |-> "september", dueDate |-> <<2025, 9, 15>>],
    [key |-> "december", dueDate |-> <<2025, 12, 15>>],
    [key |-> "march", dueDate |-> <<2026, 3, 15>>]>>

\* currentStep and highestStepReached after nextStep()
stepsAfterNext ==
  IF currentStep < Len(STEP_LABELS) - 1
  THEN <<currentStep + 1, Max(highestStepReached, currentStep + 1)>>
  ELSE <<currentStep, highestStepReached>>

\* goToStep without the ceiling of the highest step reached
stepAfterGoToAnyStep(step) ==
  IF step >= 0 THEN step ELSE currentStep

\* currentStep after goToStep(step)
stepAfterGoTo(step) ==
  IF step >= 0 /\ step <= highestStepReached THEN step ELSE currentStep

\* the part of nextStep() every submit ends with
Advance ==
  /\ currentStep' = stepsAfterNext[1]
  /\ highestStepReached' = stepsAfterNext[2]

nextStep ==
  /\ Advance
  /\ UNCHANGED <<personalInfo, salaryIncome, mfWithdrawals, usStockSales, otherIncome,
                 deductions, advanceTaxPaid, calculationResults>>
  /\ UNCHANGED <<slabVars, gainVars, fileVars, forexVars>>

prevStep ==
  /\ currentStep' = IF currentStep > 0 THEN currentStep - 1 ELSE currentStep
  /\ UNCHANGED <<personalInfo, salaryIncome, mfWithdrawals, usStockSales, otherIncome,
                 deductions, advanceTaxPaid, calculationResults, highestStepReached>>
  /\ UNCHANGED <<slabVars, gainVars, fileVars, forexVars>>

goToStep(step) ==
  /\ currentStep' = stepAfterGoTo(step)
  /\ UNCHANGED <<personalInfo, salaryIncome, mfWithdrawals, usStockSales, otherIncome,
                 deductions, advanceTaxPaid, calculationResults, highestStepReached>>
  /\ UNCHANGED <<slabVars, gainVars, fileVars, forexVars>>

\* the component WizardShell renders
StepComponent == STEPS[currentStep + 1]

\* onSubmit of the Personal Information step: the stored profile with the fields
\* of the form
SubmitPersonalInfo(data) ==
  /\ StepComponent = "PersonalInfo"
  /\ personalInfo' = [personalInfo EXCEPT !.ageBracket = data.ageBracket,
                                          !.residentialStatus = data.residentialStatus]
  /\ Advance
  /\ UNCHANGED <<salaryIncome, mfWithdrawals, usStockSales, otherIncome,
                 deductions, advanceTaxPaid, calculationResults>>
  /\ UNCHANGED <<slabVars, gainVars, fileVars, forexVars>>

\* onSubmit and onSkip (income = NULL) of the Salary Income step
SubmitSalaryIncome(income) ==
  /\ StepComponent = "SalaryIncome"
  /\ salaryIncome' = income
  /\ Advance
  /\ UNCHANGED <<personalInfo, mfWithdrawals, usStockSales, otherIncome,
                 deductions, advanceTaxPaid, calculationResults>>
  /\ UNCHANGED <<slabVars, gainVars, fileVars, forexVars>>

\* onSubmit and onSkip (no rows) of the MF Withdrawals step
SubmitMfWithdrawals(rows) ==
  /\ StepComponent = "MfWithdrawals"
  /\ mfWithdrawals' = [i \in 1..Len(rows) |-> mfFormEntry(rows[i])]
  /\ Advance
  /\ UNCHANGED <<personalInfo, salaryIncome, usStockSales, otherIncome,
                 deductions, advanceTaxPaid, calculationResults>>
  /\ UNCHANGED <<slabVars, gainVars, fileVars, forexVars>>

\* onSubmit and onSkip (no rows) of the US Stock Income step
SubmitUsStockIncome(rows) ==
  /\ StepComponent = "UsStockIncome"
  /\ usStockSales' = [i \in 1..Len(rows) |-> usFormEntry(rows[i])]
  /\ Advance
  /\ UNCHANGED <<personalInfo, salaryIncome, mfWithdrawals, otherIncome,
                 deductions, advanceTaxPaid, calculationResults>>
  /\ UNCHANGED <<slabVars, gainVars, fileVars, forexVars>>

\* onSubmit and onSkip (no entries) of the Other Income step
SubmitOtherIncome(entries) ==
  /\ StepComponent = "OtherIncome"
  /\ otherIncome' = entries
  /\ Advance
  /\ UNCHANGED <<personalInfo, salaryIncome, mfWithdrawals, usStockSales,
                 deductions, advanceTaxPaid, calculationResults>>
  /\ UNCHANGED <<slabVars, gainVars, fileVars, forexVars>>

\* onSubmit of the Deductions step
SubmitDeductions(data) ==
  /\ StepComponent = "Deductions"
  /\ deductions' = data
  /\ Advance
  /\ UNCHANGED <<personalInfo, salaryIncome, mfWithdrawals, usStockSales,
                 otherIncome, advanceTaxPaid, calculationResults>>
  /\ UNCHANGED <<slabVars, gainVars, fileVars, forexVars>>

\* the four payment records built from the form: data[q] = <<amount, date>>
formPayments(data) ==
  [q \in 1..Len(FORM_QUARTERS) |->
     [quarter |-> FORM_QUARTERS[q].key, dueDate |-> FORM_QUARTERS[q].dueDate,
      amountPaid |-> data[q][1], datePaid |-> data[q][2]]]

\* onSubmit of the Advance Tax Payments step: setAdvanceTaxPaid,
\* generateWorksheet, setCalculationResults, nextStep
SubmitAdvanceTaxPayments(data) ==
  /\ StepComponent = "AdvanceTaxPayments"
  /\ advanceTaxPaid' = formPayments(data)
  /\ calculationResults'
       = generateWorksheet([State EXCEPT !.advanceTaxPaid = formPayments(data)])
  /\ Advance
  /\ UNCHANGED <<personalInfo, salaryIncome, mfWithdrawals, usStockSales,
                 otherIncome, deductions>>
  /\ UNCHANGED <<slabVars, gainVars, fileVars, forexVars>>

\* the forms: nothing paid; the first instalment of the salary below paid in time
PaymentForms ==
  {<<<<0, <<>>>>, <<0, <<>>>>, <<0, <<>>>>, <<0, <<>>>>>>,
   <<<<Rs(7800), <<2025, 6, 10>>>>, <<0, <<>>>>, <<0, <<>>>>, <<0, <<>>>>>>}

WizardProfiles ==
  {[ageBracket |-> "below60", residentialStatus |-> "resident"],
   [ageBracket |-> "60to80", residentialStatus |-> "resident"]}

WizardInit ==
  /\ scale = FineScale
  /\ personalInfo = initialPersonalInfo
  /\ salaryIncome = NULL
  /\ mfWithdrawals = <<>>
  /\ usStockSales = <<>>
  /\ otherIncome = <<>>
  /\ deductions = initialDeductions
  /\ advanceTaxPaid = <<>>
  /\ calculationResults = NULL
  /\ currentStep = 0
  /\ highestStepReached = 0
  /\ exported = NULL
  /\ ForexIdle
  /\ Idle

WizardNext ==
  \/ nextStep
  \/ prevStep
  \/ \E step \in (0 - StepMargin)..(Len(STEPS) - 1 + StepMargin) : goToStep(step)
  \/ clearAll
  \/ ExportData
  \/ importData
  \/ \E data \in WizardProfiles : SubmitPersonalInfo(data)
  \/ \E income \in {NULL, RoundSalary(0)} : SubmitSalaryIncome(income)
  \/ SubmitMfWithdrawals(<<>>)
  \/ SubmitUsStockIncome(<<>>)
  \/ SubmitOtherIncome(<<>>)
  \/ SubmitDeductions(initialDeductions)
  \/ \E data \in PaymentForms : SubmitAdvanceTaxPayments(data)

WizardSpec == WizardInit /\ [][WizardNext]_vars

----------------------------------------------------------------------------
\* Properties of the indexation and of the missing redemption date

\* whole years elapsed from one date to the other
ElapsedWholeYears(from, to) == differenceInMonths(to, from) \div 12

\* cost * 1.04^n
IndexedBy(cost, n) == MulDiv(cost, Pow(26, n), Pow(25, n))

\* a debt-fund withdrawal and a US stock sale that are long-term with a raw gain
LongTermDebt(w) ==
  w.fundType = "debt" /\ w.holdingPeriodMonths > ClassThreshold("debt") /\ RawGain(w) > 0
LongTermStock(x) == x.holdingPeriodMonths > ClassThreshold("us") /\ UsRawGain(x) > 0

\* the long-term gains of the lists, the cost indexed by years(from, to)
IndexedDebtGains(list, years(_, _), disposal(_)) ==
  Sum([i \in 1..Len(list) |->
         IF LongTermDebt(list[i])
         THEN Max(0, list[i].amountWithdrawn
                     - IndexedBy(list[i].costBasis,
                                 years(list[i].dateOfInvestment, disposal(list[i]))))
         ELSE 0])
IndexedStockGains(list, years(_, _)) ==
  Sum([i \in 1..Len(list) |->
         IF LongTermStock(list[i])
         THEN Max(0, list[i].saleProceedsINR
                     - IndexedBy(list[i].costBasisINR,
                                 years(list[i].dateOfPurchase, list[i].dateOfSale))
                     - list[i].brokerageCharges)
         ELSE 0])

\* every long-term entry carries both of its dates
AllDated ==
  /\ \A i \in 1..Len(mfWithdrawals) :
        LongTermDebt(mfWithdrawals[i]) =>
          mfWithdrawals[i].dateOfInvestment # <<>> /\ mfWithdrawals[i].dateOfWithdrawal # <<>>
  /\ \A i \in 1..Len(usStockSales) :
        LongTermStock(usStockSales[i]) =>
          usStockSales[i].dateOfPurchase # <<>> /\ usStockSales[i].dateOfSale # <<>>

\* C21: the long-term debt-fund and US stock gains are max(0, proceeds - indexed
\* cost - brokerage) with the cost indexed by 1.04 per elapsed whole year from the
\* acquisition to the disposal, and are never more than the raw gains.
C21_IndexedByElapsedYears ==
  (Classified /\ AllDated) =>
    /\ gainSummary.debtLtcg
         = IndexedDebtGains(mfWithdrawals, ElapsedWholeYears, LAMBDA w : w.dateOfWithdrawal)
    /\ usGainSummary.ltcg = IndexedStockGains(usStockSales, ElapsedWholeYears)
    /\ gainSummary.debtLtcg <= FundGains(mfWithdrawals, "debt", TRUE)
    /\ usGainSummary.ltcg <= StockGains(usStockSales, TRUE)

\* the years as getIndexedCost counts them
CalendarYears(from, to) == Max(0, getYear(to) - getYear(from))

\* the disposal date of a withdrawal, 2025-04-01 when the redemption date is absent
DisposalDate(w) == IF w.dateOfWithdrawal = <<>> THEN <<2025, 4, 1>> ELSE w.dateOfWithdrawal

\* C22: a withdrawal without a redemption date is held until 2025-04-01, in the
\* holding period the form stores and in the indexed cost of its long-term debt
\* gain alike.
C22_FiscalYearStartDisposal ==
  /\ \A i \in 1..Len(mfWithdrawals) :
        LET w == mfWithdrawals[i]
        IN  w.dateOfWithdrawal = <<>> =>
              mfFormEntry(w).holdingPeriodMonths
                = Max(differenceInMonths(<<2025, 4, 1>>, w.dateOfInvestment), 0)
  /\ Classified =>
        gainSummary.debtLtcg = IndexedDebtGains(mfWithdrawals, CalendarYears, DisposalDate)

----------------------------------------------------------------------------
\* Properties of the forex cache

\* a request has succeeded
Fetched == \E p \in 1..Len(promises) : promises[p].fetch = "ok"

\* the callers that call getForexRates in a step
Calling == {c \in 1..Len(calls) : calls[c].pc = "idle" /\ calls'[c].pc # "idle"}

\* C23: at most one request of fetchAndParseForexCsv is in flight at any time; a
\* caller whose promise is still pending waits for the one promise in flight;
\* once a request has succeeded no request is made again and every later call
\* is answered with the memory cache.
C23_OneFetchInFlight ==
  /\ [](/\ Cardinality(fetching) <= 1
        /\ \A c \in 1..Len(calls) :
             (calls[c].pc = "awaiting" /\ promises[calls[c].promise].state = "pending")
               => /\ inflight = [id |-> calls[c].promise]
                  /\ fetching = {calls[c].promise})
  /\ [][Fetched =>
          /\ promises' = promises
          /\ fetching' = fetching
          /\ memoryCache' = memoryCache
          /\ \A c \in Calling :
               calls'[c].pc = "fulfilled" /\ calls'[c].value = memoryCache]_vars

\* two callers were answered by the one request, a third by the memory cache
C23_Witness ==
  /\ Len(calls) >= 3
  /\ Len(promises) = 1
  /\ promises[1].fetch = "ok"
  /\ calls[1].pc = "fulfilled" /\ calls[1].promise = 1
  /\ calls[2].pc = "fulfilled" /\ calls[2].promise = 1
  /\ calls[3].pc = "fulfilled" /\ calls[3].promise = 0
  /\ calls[1].value = memoryCache
  /\ calls[2].value = memoryCache
  /\ calls[3].value = memoryCache
  /\ fetching = {}

\* rates that parse are stored
RatesStored == storage # NULL /\ storage # Garbage

\* C24: when a request fails, its promise is fulfilled with the rates stored in
\* localStorage if rates that parse are stored, however old, and is rejected
\* otherwise; inflight is null whenever no request is pending, and the call
\* that follows a rejection makes a new request.
C24_FallbackOnFailure ==
  /\ [][\A p \in fetching :
          (p \notin fetching' /\ promises'[p].fetch = "failed")
            => /\ inflight' = NULL
               /\ IF RatesStored
                  THEN /\ promises'[p].state = "fulfilled"
                       /\ promises'[p].value = storage.rates
                  ELSE promises'[p].state = "rejected"]_vars
  /\ [](fetching = {} => inflight = NULL)
  /\ [][(/\ Len(promises) > 0
          /\ promises[Len(promises)].state = "rejected"
          /\ Calling # {})
            => /\ Len(promises') = Len(promises) + 1
               /\ fetching' = {Len(promises')}
               /\ inflight' = [id |-> Len(promises')]]_vars

\* a request failed a day and a half after the rates were stored, and its caller
\* got the stored rates
C24_Witness ==
  /\ Len(promises) = 1
  /\ promises[1].fetch = "failed"
  /\ promises[1].state = "fulfilled"
  /\ RatesStored
  /\ now - storage.timestamp > TTL_MS
  /\ calls[1].pc = "fulfilled" /\ calls[1].promise = 1
  /\ calls[1].value = StoredRates
  /\ memoryCache = StoredRates
  /\ inflight = NULL

----------------------------------------------------------------------------
\* Properties of the wizard navigation

\* the step numbers tried with goToStep
StepArguments == (0 - StepMargin)..(Len(STEPS) - 1 + StepMargin)

\* C25: the current step is never below 0, never beyond the highest step reached,
\* and that one never beyond 6; goToStep(k) moves the current step only for
\* 0 <= k <= highestStepReached.
C25_StepsWithinReach ==
  /\ 0 <= currentStep
  /\ currentStep <= highestStepReached
  /\ highestStepReached <= 6
  /\ \A k \in StepArguments :
       stepAfterGoTo(k) # currentStep => (0 <= k /\ k <= highestStepReached)

\* every step reached, the user back at the third step, the worksheet stored
C25_Witness ==
  /\ highestStepReached = 6
  /\ currentStep = 2
  /\ calculationResults # NULL
  /\ stepAfterGoTo(5) = 5
  /\ stepAfterGoTo(7) = 2

\* C26: the submit of the Advance Tax Payments step leaves currentStep = 7, where
\* WizardShell renders TaxWorksheet with the stored results.
C26_WorksheetShown ==
  [][\A data \in PaymentForms :
       SubmitAdvanceTaxPayments(data)
         => /\ currentStep' = 7
            /\ STEPS[currentStep' + 1] = "TaxWorksheet"
            /\ calculationResults' # NULL]_vars

----------------------------------------------------------------------------
\* Properties of the payment records and of the amounts displayed

\* C28: the advance tax shown as already paid by TaxWorksheet is the total advance
\* tax paid that netAmountPayable was computed with.
C28_DisplayedAdvanceTax ==
  Computed => advanceTaxAlreadyPaid(calculationResults) = TotalPaid

\* list without its i-th element
Without(list, i) == [j \in 1..(Len(list) - 1) |-> IF j < i THEN list[j] ELSE list[j + 1]]

\* the worksheet of the stored input with other payment records
WorksheetWith(payments) == generateWorksheet([State EXCEPT !.advanceTaxPaid = payments])

\* the figures drawn from the payments
PaymentFigures(res) ==
  <<[q \in Rows |-> <<res.advanceTaxSchedule[q].actualPaid,
                      res.advanceTaxSchedule[q].shortfall>>],
    res.interest234B, res.interest234C, res.netAmountPayable>>

\* a record without a positive amount or without a date that parses
Ignorable(p) == p.amountPaid <= 0 \/ ~IsCalendarDate(PaymentDate(p))

\* C29: a record with an empty datePaid counts as paid on its dueDate: the
\* worksheet is that of the record dated on its due date; a record whose amount
\* is 0 or less, or whose date does not parse, changes no figure: actual paid and
\* shortfall of every row, both interests and the net amount payable are those
\* of the input without the record.
C29_UndatedAndIgnoredRecords ==
  Computed =>
    \A i \in 1..Len(advanceTaxPaid) :
      LET p == advanceTaxPaid[i]
      IN  /\ p.datePaid = <<>> =>
                calculationResults
                  = WorksheetWith([advanceTaxPaid EXCEPT ![i].datePaid = p.dueDate])
          /\ (p.datePaid = <<>> /\ p.amountPaid > 0) =>
                \A q \in Rows :
                  DateLeq(p.dueDate, DUE_DATES[q]) =>
                    calculationResults.advanceTaxSchedule[q].actualPaid >= p.amountPaid
          /\ Ignorable(p) =>
                PaymentFigures(calculationResults)
                  = PaymentFigures(WorksheetWith(Without(advanceTaxPaid, i)))

\* a record with the amount 0 is ignored and an undated record for September
\* is counted from the September row on
C29_Witness ==
  /\ Computed
  /\ Applicable
  /\ Len(advanceTaxPaid) = 2
  /\ advanceTaxPaid[1].amountPaid = 0
  /\ advanceTaxPaid[2].amountPaid > 0 /\ advanceTaxPaid[2].datePaid = <<>>
  /\ calculationResults.advanceTaxSchedule[1].actualPaid = 0
  /\ calculationResults.advanceTaxSchedule[2].actualPaid = advanceTaxPaid[2].amountPaid
  /\ calculationResults.advanceTaxSchedule[4].actualPaid = advanceTaxPaid[2].amountPaid

\* a record counted, dated after the March due date; up to the end of the year
CountedAfterMarch15(p) ==
  /\ ~Ignorable(p)
  /\ ~DateLeq(PaymentDate(p), DUE_DATES[4])
BeforeYearEnd(p) == DateLeq(PaymentDate(p), FY_END)

\* C30: a payment after 2026-03-15 and up to 2026-03-31 is in no row's actual
\* paid and leaves the shortfalls and the interest under 234C as they are
\* without it, while the interest under 234B and the net amount payable are
\* lower with it (not higher, and lower where they were above 0); a payment after
\* 2026-03-31 lowers the net amount payable only.
C30_LatePayments ==
  Computed =>
    \A i \in 1..Len(advanceTaxPaid) :
      CountedAfterMarch15(advanceTaxPaid[i]) =>
        LET with == calculationResults
            without == WorksheetWith(Without(advanceTaxPaid, i))
        IN  /\ with.advanceTaxSchedule = without.advanceTaxSchedule
            /\ with.interest234C = without.interest234C
            /\ with.netAmountPayable <= without.netAmountPayable
            /\ without.netAmountPayable > 0
                 => with.netAmountPayable < without.netAmountPayable
            /\ IF BeforeYearEnd(advanceTaxPaid[i])
               THEN /\ with.interest234B <= without.interest234B
                    /\ without.interest234B > 0
                         => with.interest234B < without.interest234B
               ELSE with.interest234B = without.interest234B

\* the whole tax paid on 2026-03-20: every row short, interest under 234C but
\* none under 234B, nothing left to pay but the interest
C30_Witness ==
  /\ Computed
  /\ Applicable
  /\ Len(advanceTaxPaid) = 1
  /\ advanceTaxPaid[1].datePaid = <<2026, 3, 20>>
  /\ \A q \in Rows : calculationResults.advanceTaxSchedule[q].actualPaid = 0
  /\ calculationResults.advanceTaxSchedule[4].shortfall > 0
  /\ calculationResults.interest234C > 0
  /\ calculationResults.interest234B = 0
  /\ WorksheetWith(<<>>).interest234B > 0
  /\ calculationResults.netAmountPayable = calculationResults.interest234C

====
